---- MODULE Spec2Model ----
(***************************************************************************)
(* Model of the adaptive tabular ingestion engine of                       *)
(* backend/agents/data_extractor_agent.py: header and value scoring, the   *)
(* column mapping, delimited-text reading, the canonical record builder,   *)
(* the semantic analyzer, the table reconstructor and the summary of text  *)
(* documents, and the concurrent file orchestrator (extract_documents);    *)
(* and of the audit pipeline of backend/graph.py (AgentGraph.invoke) and   *)
(* backend/worker.py (AuditWorker.process_message).                        *)
(*                                                                         *)
(* Text is modelled by TLA+ strings, read character by character with      *)
(* SubSeq. Scores, which the source computes in binary floating point, are *)
(* exact rationals [n, d] in lowest terms; a recorded score is the         *)
(* rational rounded to thousandths. A floating-point sum can fall one unit *)
(* in the last place below the exact sum (0.5 + 0.2 + 0.2 + 0.1 < 1.0), so *)
(* of two columns whose exact scores tie the source may pick the later one *)
(* where the model picks the first.                                        *)
(***************************************************************************)
EXTENDS Integers, Sequences, FiniteSets, TLC

VARIABLES
  pc,                \* position of the run: which step of the operation is next
  rows,              \* _infer_column_mapping: the rows, column id -> cell
  display_map,       \* column id -> display header
  columns,           \* list(display_map.keys()): the column ids in order
  mapping,           \* canonical field -> column id
  diagnostics,       \* canonical field -> [column, score, matched_by]
  used_columns,      \* the columns taken by a non-reusable field
  csv_text,          \* the decoded text of a delimited document
  container,         \* "file": submitted as a file; "zip": as an archive member
  csv_read,          \* what _read_csv_rows returned for csv_text
  file_list,         \* extract_documents: the submitted paths, in order
  progress_callback, \* TRUE when a progress callback was passed
  tasks,             \* per submitted path: the state of its _process_path run
  fs,                \* the temporary files that exist: path -> who wrote it
  ordered_results,   \* the (index, documents) pairs collected so far
  completion_order,  \* the indexes of the runs that ended, in the order they ended
  docs,              \* the documents extract_documents returns
  outcome,           \* "running", "returned", or "raised" (an exception left the call)
  totals_by_nfe,     \* _convert_tabular_rows: _aggregate_totals(rows, mapping)
  result,            \* the canonical records built so far
  analyzer,          \* the fields of the _SemanticAnalyzer
  meta,              \* the metadata returned with the records
  entry_point,       \* the call that is run: "invoke", "process_message" or "injected"
  graph_state,       \* the GraphState the pipeline works on
  node,              \* the number of the phase AgentGraph.invoke is at
  agent_updates,     \* the calls of update_agent_status, in order
  task_updates,      \* the calls of update_task_status, in order
  saved,             \* the task ids a report was saved under
  raised_error,      \* the exception in flight: << >> or << its text >>
  extension,             \* _handle_single_file: the extension of the document, "pdf" or "ocr"
  doc_text,          \* the text read from the document
  text_lines,        \* _extract_structured_rows_from_text: the lines with text
  idx,               \* _extract_structured_rows_from_text: the line examined next
  candidate_tables,  \* the tables found so far: header, rows, start, end
  table_meta,        \* the description of the selected table
  doc,               \* the ImportedDoc returned for the document
  raw_header,        \* _read_csv_rows: the header cells handed to _sanitize_fieldnames
  raw_pos,           \* _sanitize_fieldnames: the header cells consumed by its loop
  sanitized_list,    \* _sanitize_fieldnames: `sanitized`, the identifiers so far
  alias_counts,      \* _sanitize_fieldnames: `counts`
  raw_data_rows,     \* _read_csv_rows: `data_rows`, the cells of the rows under the header
  row_pos,           \* _read_csv_rows: the data rows consumed by `for raw_row in data_rows`
  dialect_delimiter, \* _detect_csv_delimiter: `candidate`, the answer of csv.Sniffer
  chosen_delimiter,  \* _detect_csv_delimiter: the delimiter it returns
  progress_calls,    \* the calls of progress_callback, in order
  task_row           \* the row of the task in the database: << >> or << its fields >>

mapVars == << rows, display_map, columns, mapping, diagnostics, used_columns >>
csvVars == << csv_text, container, csv_read >>
batchVars == << file_list, progress_callback, tasks, fs, ordered_results, completion_order >>
outVars == << docs, outcome >>
rowVars == << totals_by_nfe, result, analyzer, meta >>
pipeVars ==
  << entry_point, graph_state, node, agent_updates, task_updates, saved, raised_error >>
textVars == << extension, doc_text, text_lines, idx, candidate_tables, table_meta, doc >>
readVars == << raw_header, raw_pos, sanitized_list, alias_counts, raw_data_rows, row_pos >>
sniffVars == << dialect_delimiter, chosen_delimiter >>
callVars == << progress_calls >>
statusVars == << task_row >>
moreVars == << callVars, statusVars >>
extraVars == << readVars, sniffVars, moreVars >>
restVars == << pipeVars, textVars, extraVars >>
auxVars == << rowVars, restVars >>
vars == << pc, mapVars, csvVars, batchVars, outVars, auxVars >>

\* The variables of an operation that is not the one being run.
MapIdle ==
  /\ rows = << >> /\ display_map = << >> /\ columns = << >>
  /\ mapping = << >> /\ diagnostics = << >> /\ used_columns = {}
CsvIdle == csv_text = "" /\ container = "file" /\ csv_read = << >>
BatchIdle ==
  /\ file_list = << >> /\ progress_callback = FALSE /\ tasks = << >>
  /\ fs = << >> /\ ordered_results = << >> /\ completion_order = << >>
OutIdle == docs = << >> /\ outcome = "running"
RowIdle ==
  /\ totals_by_nfe = << >> /\ result = << >> /\ analyzer = << >> /\ meta = << >>
PipeIdle ==
  /\ entry_point = "" /\ graph_state = << >> /\ node = 0 /\ agent_updates = << >>
  /\ task_updates = << >> /\ saved = {} /\ raised_error = << >>
TextIdle ==
  /\ extension = "" /\ doc_text = "" /\ text_lines = << >> /\ idx = 0 /\ candidate_tables = << >>
  /\ table_meta = << >> /\ doc = << >>
ReadIdle ==
  /\ raw_header = << >> /\ raw_pos = 0 /\ sanitized_list = << >> /\ alias_counts = << >>
  /\ raw_data_rows = << >> /\ row_pos = 0
SniffIdle == dialect_delimiter = "" /\ chosen_delimiter = ""
CallIdle == progress_calls = << >>
StatusIdle == task_row = << >>
MoreIdle == CallIdle /\ StatusIdle
ExtraIdle == ReadIdle /\ SniffIdle /\ MoreIdle
RestIdle == PipeIdle /\ TextIdle /\ ExtraIdle
AuxIdle == RowIdle /\ RestIdle

----------------------------------------------------------------------------
(* Bounds of the model.                                                    *)

\* columns of a table
MaxCols == 2
\* rows of a table
MaxRows == 1
\* lines of a delimited text
MaxLines == 3
\* paths of a batch
MaxFiles == 2

----------------------------------------------------------------------------
(* Characters and strings.                                                 *)

Ch(s, i) == SubSeq(s, i, i)

DigitChars == {"0", "1", "2", "3", "4", "5", "6", "7", "8", "9"}

UpperLetters == "ABCDEFGHIJKLMNOPQRSTUVWXYZ"
LowerLetters == "abcdefghijklmnopqrstuvwxyz"

\* Letters with a diacritic and the base letter NFKD leaves of them.
AccentedLetters == "ãáàâéêíóôõúçÃÁÀÂÉÊÍÓÔÕÚÇ"
BaseLetters == "aaaaeeioooucAAAAEEIOOOUC"

CharsOf(s) == { Ch(s, i) : i \in 1..Len(s) }

IndexIn(c, s) == CHOOSE i \in 1..Len(s) : Ch(s, i) = c

IsAlphaChar(c) ==
  c \in CharsOf(UpperLetters) \cup CharsOf(LowerLetters) \cup CharsOf(AccentedLetters)

StripAccent(c) ==
  IF c \in CharsOf(AccentedLetters) THEN Ch(BaseLetters, IndexIn(c, AccentedLetters)) ELSE c

LowerChar(c) ==
  IF c \in CharsOf(UpperLetters) THEN Ch(LowerLetters, IndexIn(c, UpperLetters)) ELSE c

IsSpaceChar(c) == c \in {" ", "\t", "\n", "\r"}

Range(seq) == { seq[i] : i \in 1..Len(seq) }

\* `body` of `value`: a local name of the source, computed once and before
\* the statements that use it.
With(value, body(_)) == IF value = value THEN body(value) ELSE body(value)

\* The least and the greatest of a non-empty set of positions.
First(positions) == CHOOSE i \in positions : \A j \in positions : i <= j
Last(positions) == CHOOSE i \in positions : \A j \in positions : j <= i

RECURSIVE Concat(_, _, _)
\* "".join(pieces[lo..hi]), joined by quarters
Concat(pieces, lo, hi) ==
  IF hi - lo < 4
    THEN (IF lo <= hi THEN pieces[lo] ELSE "") \o (IF lo + 1 <= hi THEN pieces[lo + 1] ELSE "")
         \o ((IF lo + 2 <= hi THEN pieces[lo + 2] ELSE "") \o (IF lo + 3 <= hi THEN pieces[lo + 3] ELSE ""))
  ELSE (Concat(pieces, lo, lo + (hi - lo) \div 4)
          \o Concat(pieces, lo + (hi - lo) \div 4 + 1, lo + (hi - lo) \div 2))
       \o (Concat(pieces, lo + (hi - lo) \div 2 + 1, lo + (3 * (hi - lo)) \div 4)
          \o Concat(pieces, lo + (3 * (hi - lo)) \div 4 + 1, hi))

\* str.lstrip()
LStrip(s) ==
  With({ i \in 1..Len(s) : ~IsSpaceChar(Ch(s, i)) }, LAMBDA kept :
    IF kept = {} THEN "" ELSE SubSeq(s, First(kept), Len(s)))

\* str.rstrip()
RStrip(s) ==
  With({ i \in 1..Len(s) : ~IsSpaceChar(Ch(s, i)) }, LAMBDA kept :
    IF kept = {} THEN "" ELSE SubSeq(s, 1, Last(kept)))

\* str.strip()
Strip(s) == LStrip(RStrip(s))

\* `needle in haystack` on strings
Contains(haystack, needle) ==
  \E i \in 1..(Len(haystack) - Len(needle) + 1) :
    SubSeq(haystack, i, i + Len(needle) - 1) = needle

\* The position of the k-th separator of `at`; 0 before the first and one
\* past the end after the last.
CutAt(at, k, end) ==
  IF k = 0 THEN 0
  ELSE IF k > Cardinality(at) THEN end + 1
  ELSE CHOOSE p \in at : Cardinality({ q \in at : q < p }) = k - 1

\* str.split(sep): the pieces between separators, empty pieces kept
SplitOn(s, seps) ==
  With({ i \in 1..Len(s) : Ch(s, i) \in seps }, LAMBDA at :
    [k \in 1..(Cardinality(at) + 1) |->
       SubSeq(s, CutAt(at, k - 1, Len(s)) + 1, CutAt(at, k, Len(s)) - 1)] @@ << >>)

\* str.split(): the whitespace-separated tokens
SplitWords(s) == SelectSeq(SplitOn(s, {" ", "\t", "\n", "\r"}), LAMBDA t : t # "")

----------------------------------------------------------------------------
(* Exact rationals for the scores.                                         *)

RECURSIVE GCD(_, _)
GCD(a, b) == IF b = 0 THEN a ELSE GCD(b, a % b)

Abs(x) == IF x < 0 THEN -x ELSE x

Rat(n, d) == LET g == GCD(Abs(n), d) IN [n |-> n \div g, d |-> d \div g]

Zero == Rat(0, 1)
One == Rat(1, 1)

RAdd(a, b) == Rat(a.n * b.d + b.n * a.d, a.d * b.d)
RSub(a, b) == Rat(a.n * b.d - b.n * a.d, a.d * b.d)
RMul(a, b) == Rat(a.n * b.n, a.d * b.d)
RLess(a, b) == a.n * b.d < b.n * a.d
RLeq(a, b) == a.n * b.d <= b.n * a.d
RMax(a, b) == IF RLess(a, b) THEN b ELSE a
RMin(a, b) == IF RLess(b, a) THEN b ELSE a
\* max() of a non-empty set of rationals
RMaxOf(S) == CHOOSE x \in S : \A y \in S : RLeq(y, x)

\* round(x, 3), in thousandths
Round3(a) == (2000 * a.n + a.d) \div (2 * a.d)

----------------------------------------------------------------------------
(* Header normalisation and name scoring.                                  *)

\* The character at position i without its accent, in lower case.
Folded(s, i) == LowerChar(StripAccent(Ch(s, i)))

\* [a-z0-9]
IsLowerAlnum(c) == c \in CharsOf(LowerLetters) \cup DigitChars

\* Accents dropped, lower case, every run of other characters one space,
\* no space at either end.
_normalize_text(value) ==
  RStrip(Concat([i \in 1..Len(value) |->
                   IF IsLowerAlnum(Folded(value, i)) THEN Folded(value, i)
                   ELSE IF i > 1 /\ IsLowerAlnum(Folded(value, i - 1)) THEN " "
                   ELSE ""],
                1, Len(value)))

NameExact == One
NameSubstring == Rat(95, 100)

\* coverage * 0.7 + header_coverage * 0.3 - missing_ratio * 0.4, not below 0
BlendScore(overlap, alias_count, header_count) ==
  RMax(Rat(7 * overlap * header_count + 3 * overlap * alias_count
             - 4 * (alias_count - overlap) * header_count,
           10 * alias_count * header_count),
       Zero)

\* What one alias offers `best_score`: 0.95 when the header contains it, the
\* blend when they share a token, nothing otherwise.
AliasScore(normalized_header, alias) ==
  With(Range(SplitWords(normalized_header)), LAMBDA header_tokens :
  With(Range(SplitWords(alias)), LAMBDA alias_tokens :
  With(Cardinality(header_tokens \cap alias_tokens), LAMBDA overlap :
    IF alias_tokens = {} THEN Zero
    ELSE IF Contains(normalized_header, alias) THEN NameSubstring
    ELSE IF header_tokens = {} \/ overlap = 0 THEN Zero
    ELSE BlendScore(overlap, Cardinality(alias_tokens), Cardinality(header_tokens)))))

\* `return 1.0` at the first alias equal to the header; otherwise the loop
\* ends with the greatest of what the aliases offered, from 0.0.
_score_header_match(normalized_header, aliases) ==
  IF normalized_header = "" THEN Zero
  ELSE IF \E i \in 1..Len(aliases) :
            aliases[i] = normalized_header /\ SplitWords(aliases[i]) # << >>
    THEN NameExact
  ELSE RMaxOf({Zero} \cup { AliasScore(normalized_header, aliases[i]) : i \in 1..Len(aliases) })

----------------------------------------------------------------------------
(* backend/utils/parsing.py: the locale-tolerant number parser.  A parsed  *)
(* number is its decimal expansion: sign, integer digits without leading   *)
(* zeros, fraction digits without trailing zeros.                          *)

\* The characters of s that are in `keep`, in order.
KeepChars(s, keep) ==
  Concat([i \in 1..Len(s) |-> IF Ch(s, i) \in keep THEN Ch(s, i) ELSE ""], 1, Len(s))

\* str.replace(from, to) for a one-character `from`
ReplaceChar(s, from, to) ==
  Concat([i \in 1..Len(s) |-> IF Ch(s, i) = from THEN to ELSE Ch(s, i)], 1, Len(s))

HasChar(s, c) == \E i \in 1..Len(s) : Ch(s, i) = c

\* str.rfind(c): the last position of c, 0 when absent (positions from 1)
RFind(s, c) ==
  IF HasChar(s, c) THEN CHOOSE i \in 1..Len(s) : Ch(s, i) = c /\ \A j \in (i + 1)..Len(s) : Ch(s, j) # c
  ELSE 0

StripLeadingZeros(s) ==
  With({ i \in 1..Len(s) : Ch(s, i) # "0" }, LAMBDA kept :
    IF kept = {} THEN "" ELSE SubSeq(s, First(kept), Len(s)))

StripTrailingZeros(s) ==
  With({ i \in 1..Len(s) : Ch(s, i) # "0" }, LAMBDA kept :
    IF kept = {} THEN "" ELSE SubSeq(s, 1, Last(kept)))

ZeroFloat == [neg |-> FALSE, ip |-> "", fp |-> ""]

\* float(s) of a string of digits, dots and minus signs; a string float()
\* rejects (ValueError) gives 0.0.
FloatOf(s) ==
  With(s # "" /\ Ch(s, 1) = "-", LAMBDA neg :
  With(IF neg THEN SubSeq(s, 2, Len(s)) ELSE s, LAMBDA body :
  With(SplitOn(body, {"."}), LAMBDA parts :
  With(StripLeadingZeros(parts[1]), LAMBDA ip :
  With(IF Len(parts) = 2 THEN StripTrailingZeros(parts[2]) ELSE "", LAMBDA fp :
    IF \/ HasChar(body, "-")
       \/ Len(parts) > 2
       \/ KeepChars(body, DigitChars) = ""
       \/ (ip = "" /\ fp = "")
      THEN ZeroFloat
    ELSE [neg |-> neg, ip |-> ip, fp |-> fp])))))

parse_safe_float(value) ==
  With(Strip(value), LAMBDA s0 :
  With(KeepChars(s0, DigitChars \cup {",", ".", "-"}), LAMBDA s1 :
  With(IF HasChar(s1, ",") /\ HasChar(s1, ".")
         THEN IF RFind(s1, ",") > RFind(s1, ".")
                THEN ReplaceChar(ReplaceChar(s1, ".", ""), ",", ".")
                ELSE ReplaceChar(s1, ",", "")
       ELSE IF HasChar(s1, ",") THEN ReplaceChar(s1, ",", ".")
       ELSE s1, LAMBDA s2 :
    IF s0 = "" \/ s2 = "" THEN ZeroFloat ELSE FloatOf(s2))))

\* 1e-6 < abs(x) < 1e11
IsBoundedAmount(x) ==
  /\ Len(x.ip) <= 11
  /\ \/ x.ip # ""
     \/ Len(StripLeadingZeros(x.fp)) > Len(x.fp) - 5 /\ x.fp # ""
     \/ Len(x.fp) > 6 /\ SubSeq(x.fp, 1, 5) = "00000" /\ Ch(x.fp, 6) # "0"
     \/ Len(x.fp) = 6 /\ SubSeq(x.fp, 1, 5) = "00000" /\ Ch(x.fp, 6) \notin {"0", "1"}

----------------------------------------------------------------------------
(* Value-pattern scorers.                                                  *)

BRAZILIAN_STATES ==
  {"AC", "AL", "AM", "AP", "BA", "CE", "DF", "ES", "GO", "MA", "MG", "MS", "MT", "PA",
   "PB", "PE", "PI", "PR", "RJ", "RN", "RO", "RR", "RS", "SC", "SE", "SP", "TO"}

_digits(value) == KeepChars(value, DigitChars)

UpperChar(c) ==
  IF c \in CharsOf(LowerLetters) THEN Ch(UpperLetters, IndexIn(c, LowerLetters)) ELSE c

\* str.upper()
Upper(s) == Concat([i \in 1..Len(s) |-> UpperChar(Ch(s, i))], 1, Len(s))

\* str.lower()
Lower(s) == Concat([i \in 1..Len(s) |-> LowerChar(Ch(s, i))], 1, Len(s))

\* The values a scorer counts: `if not value: continue`
NonEmpty(values) == SelectSeq(values, LAMBDA v : v # "")

CountIf(values, P(_)) == Len(SelectSeq(values, P))

\* matches / total over the non-empty values, 0.0 when there is none
MatchRatio(values, P(_)) ==
  IF Len(NonEmpty(values)) = 0 THEN Zero
  ELSE Rat(CountIf(NonEmpty(values), P), Len(NonEmpty(values)))

\* `parsed != 0.0 or any(ch.isdigit() for ch in value)`
LooksNumeric(value) == parse_safe_float(value) # ZeroFloat \/ KeepChars(value, DigitChars) # ""

\* The tenths a header keyword adds to the base score.
Bonus(found, tenths) == IF found THEN tenths ELSE 0

\* What the keywords of the header add to numeric / total, in tenths.
HeaderBonus(header_lower) ==
  Bonus(Contains(header_lower, "valor"), 2)
  + Bonus(Contains(header_lower, "total"), 2)
  + Bonus(Contains(header_lower, "unit") \/ Contains(header_lower, "unitario")
            \/ Contains(header_lower, "unidade"), 1)
  + Bonus(Contains(header_lower, "qtd") \/ Contains(header_lower, "quant"), 1)
  - Bonus(\E token \in {"modelo", "serie", "natureza", "indicador"} :
            Contains(header_lower, token), 3)

_score_numeric_column(values, header) ==
  With(NonEmpty(values), LAMBDA present :
  With(CountIf(present, LooksNumeric), LAMBDA numeric :
  With(HeaderBonus(Lower(header)), LAMBDA bonus :
    IF Len(present) = 0 THEN Zero
    ELSE RMax(Zero, RMin(Rat(10 * numeric + bonus * Len(present), 10 * Len(present)),
                         One)))))

_score_reasonable_amount(values) ==
  With(NonEmpty(values), LAMBDA present :
  With([i \in 1..Len(present) |-> parse_safe_float(present[i])], LAMBDA parsed :
  With(SelectSeq(parsed, LAMBDA number : number # ZeroFloat), LAMBDA numeric_values :
    IF Len(numeric_values) = 0 THEN Zero
    ELSE With(CountIf(numeric_values, IsBoundedAmount), LAMBDA reasonable :
         With(CountIf(present, LAMBDA v : HasChar(v, ",") \/ HasChar(v, ".")), LAMBDA decimals :
         With(IF Len(values) > 1 THEN Len(values) ELSE 1, LAMBDA rows_count :
           \* reasonable_ratio * 0.7 + decimal_ratio * 0.3, at most 1.0
           RMin(One, Rat(7 * reasonable * rows_count + 3 * decimals * Len(numeric_values),
                         10 * Len(numeric_values) * rows_count))))))))

IsWordChar(c) == IsAlphaChar(c) \/ c \in DigitChars \/ c = "_"

AllDigits(s) == s # "" /\ \A i \in 1..Len(s) : Ch(s, i) \in DigitChars

\* \b(\d{2}/\d{2}/\d{4}|\d{4}-\d{2}-\d{2})\b matching at position i
DatePatternAt(s, i) ==
  /\ i + 9 <= Len(s)
  /\ i = 1 \/ ~IsWordChar(Ch(s, i - 1))
  /\ i + 9 = Len(s) \/ ~IsWordChar(Ch(s, i + 10))
  /\ \/ /\ AllDigits(SubSeq(s, i, i + 1)) /\ Ch(s, i + 2) = "/"
        /\ AllDigits(SubSeq(s, i + 3, i + 4)) /\ Ch(s, i + 5) = "/"
        /\ AllDigits(SubSeq(s, i + 6, i + 9))
     \/ /\ AllDigits(SubSeq(s, i, i + 3)) /\ Ch(s, i + 4) = "-"
        /\ AllDigits(SubSeq(s, i + 5, i + 6)) /\ Ch(s, i + 7) = "-"
        /\ AllDigits(SubSeq(s, i + 8, i + 9))

_score_date_column(values) ==
  MatchRatio(values, LAMBDA v : \E i \in 1..Len(v) : DatePatternAt(v, i))

_score_cfop_column(values) == MatchRatio(values, LAMBDA v : Len(_digits(v)) = 4)

_score_ncm_column(values) == MatchRatio(values, LAMBDA v : Len(_digits(v)) \in {8, 10})

_score_cnpj_column(values) == MatchRatio(values, LAMBDA v : Len(_digits(v)) >= 14)

_score_uf_column(values) == MatchRatio(values, LAMBDA v : Upper(Strip(v)) \in BRAZILIAN_STATES)

_score_access_key_column(values) == MatchRatio(values, LAMBDA v : Len(_digits(v)) \in {44, 43, 45})

----------------------------------------------------------------------------
(* The canonical fields and their header aliases, in dictionary order.     *)

CSV_FIELD_NAMES ==
  << "nfe_id",
     "data_emissao",
     "valor_total_nfe",
     "emitente_nome",
     "emitente_cnpj",
     "emitente_uf",
     "destinatario_nome",
     "destinatario_cnpj",
     "destinatario_uf",
     "produto_nome",
     "produto_ncm",
     "produto_cfop",
     "produto_qtd",
     "produto_valor_unit",
     "produto_valor_total",
     "produto_cst_icms",
     "produto_base_calculo_icms",
     "produto_aliquota_icms",
     "produto_valor_icms",
     "produto_cst_pis",
     "produto_valor_pis",
     "produto_cst_cofins",
     "produto_valor_cofins",
     "produto_valor_iss" >>

CSV_FIELD_ALIASES ==
  [ nfe_id |->
      << "nfe id", "nfe", "id nfe", "chave", "chave nf", "chave acesso", "chave de acesso", "numero nf", "numero nfe", "numero nota", "chave nota", "access key" >>,
    data_emissao |->
      << "data emissao", "data emissão", "data nf", "data nota", "emissao", "emissão", "emissao nf", "issue date" >>,
    valor_total_nfe |->
      << "valor total nfe", "valor total nota", "valor nf", "valor da nota", "total nf", "valor total documento", "total nota fiscal", "valor nf-e", "total nota", "valor total" >>,
    emitente_nome |->
      << "nome emitente", "emitente nome", "razao social emitente", "emitente razao social", "emitente razao", "empresa emitente", "fornecedor nome", "fornecedor", "supplier name" >>,
    emitente_cnpj |->
      << "cnpj emitente", "emitente cnpj", "cnpj fornecedor", "cnpj remetente", "emit cnpj" >>,
    emitente_uf |->
      << "uf emitente", "estado emitente", "uf origem", "origem uf" >>,
    destinatario_nome |->
      << "nome destinatario", "destinatario nome", "razao social destinatario", "destinatario razao", "nome cliente", "cliente nome", "comprador nome", "comprador", "cliente" >>,
    destinatario_cnpj |->
      << "cnpj destinatario", "destinatario cnpj", "cnpj cliente", "cnpj comprador", "cnpj destinatário" >>,
    destinatario_uf |->
      << "uf destinatario", "estado destinatario", "uf destino", "destino uf" >>,
    produto_nome |->
      << "descricao do produto", "descrição do produto", "descricao produto", "descricao item", "item", "produto", "servico", "descricao", "produto descricao", "produto servico", "item descricao" >>,
    produto_ncm |->
      << "ncm", "codigo ncm", "codigo ncm/sh", "ncm/sh", "ncm codigo", "ncm sh" >>,
    produto_cfop |->
      << "cfop", "codigo cfop", "cfop codigo" >>,
    produto_qtd |->
      << "quantidade", "qtd", "qtde", "qtd produto", "quant", "quantidade produto", "quantidade item", "qty" >>,
    produto_valor_unit |->
      << "valor unitario", "valor unitário", "preco unitario", "preço unitario", "valor unit", "valor unit", "unit price", "valor unitario item" >>,
    produto_valor_total |->
      << "valor total item", "valor total produto", "valor total servico", "valor total linha", "valor total", "total item", "valor item", "valor total mercadoria" >>,
    produto_cst_icms |->
      << "cst icms", "situacao tributaria icms", "cst", "cst produto", "cst icms produto" >>,
    produto_base_calculo_icms |->
      << "base calculo icms", "base de calculo icms", "base icms", "base calculo" >>,
    produto_aliquota_icms |->
      << "aliquota icms", "alíquota icms", "aliq icms", "aliquota" >>,
    produto_valor_icms |->
      << "valor icms", "icms valor", "total icms" >>,
    produto_cst_pis |->
      << "cst pis", "situacao tributaria pis", "pis cst" >>,
    produto_valor_pis |->
      << "valor pis", "pis valor", "total pis" >>,
    produto_cst_cofins |->
      << "cst cofins", "situacao tributaria cofins", "cofins cst" >>,
    produto_valor_cofins |->
      << "valor cofins", "cofins valor", "total cofins" >>,
    produto_valor_iss |->
      << "valor iss", "iss valor", "total iss", "issqn" >> ]

Fields == Range(CSV_FIELD_NAMES)

\* reusable_fields: the fields that neither take a column nor skip a taken one
reusable_fields == {"valor_total_nfe"}

\* The fields inference_rules scores by value, in dictionary order.
INFERENCE_FIELDS ==
  << "nfe_id", "data_emissao", "valor_total_nfe", "produto_valor_total",
     "produto_valor_unit", "produto_qtd", "produto_cfop", "produto_ncm",
     "emitente_cnpj", "destinatario_cnpj", "emitente_uf", "destinatario_uf" >>

\* inference_rules[field](header, values)
inference_rules(field, header, values) ==
  CASE field = "nfe_id" ->
         With(<< _score_access_key_column(values) >>, LAMBDA s :
           Rat(7 * s[1].n
                 + (IF Contains(header, "chave") \/ Contains(header, "nfe") THEN 3 ELSE 0) * s[1].d,
               10 * s[1].d))
    [] field = "data_emissao" -> _score_date_column(values)
    [] field = "valor_total_nfe" ->
         \* numeric + reasonable * 0.6 - access_key * 0.7
         With(<< _score_numeric_column(values,
                   IF Contains(header, "nota") \/ Contains(header, "nf")
                     THEN header \o " total" ELSE header),
                 _score_reasonable_amount(values),
                 _score_access_key_column(values) >>, LAMBDA s :
           Rat(10 * s[1].n * s[2].d * s[3].d + 6 * s[2].n * s[1].d * s[3].d
                 - 7 * s[3].n * s[1].d * s[2].d,
               10 * s[1].d * s[2].d * s[3].d))
    [] field = "produto_valor_total" ->
         _score_numeric_column(values,
           IF Contains(header, "item") \/ Contains(header, "produto")
             THEN header \o " item" ELSE header)
    [] field = "produto_valor_unit" -> _score_numeric_column(values, header \o " unit")
    [] field = "produto_qtd" -> _score_numeric_column(values, header \o " qtd")
    [] field = "produto_cfop" -> _score_cfop_column(values)
    [] field = "produto_ncm" -> _score_ncm_column(values)
    [] field \in {"emitente_cnpj", "destinatario_cnpj"} -> _score_cnpj_column(values)
    [] field \in {"emitente_uf", "destinatario_uf"} -> _score_uf_column(values)

\* Mutation of NAME_THRESHOLD: the name pass accepts a score of 0.25.
NAME_THRESHOLD_Lowered == Rat(25, 100)

\* `if best_column and best_score >= 0.65`
NAME_THRESHOLD == Rat(65, 100)

\* `if best_column and best_score >= 0.55`
VALUE_THRESHOLD == Rat(55, 100)

----------------------------------------------------------------------------
(* Inputs of the mapping model: display headers and cell values.           *)

ACCESS_KEY_44 == "35240112345678000190550010000012341000012345"

HEADERS == {"Valor Total", "Total Geral", "Item", "Descricao CFOP"}

VALUES == {"10,50", "Produto A", ACCESS_KEY_44}

SeqsUpTo(S, n) == UNION { [1..k -> S] : k \in 1..n }

HeaderLists == SeqsUpTo(HEADERS, MaxCols)

ValueColumns == SeqsUpTo(VALUES, MaxRows)

----------------------------------------------------------------------------
(* _sanitize_fieldnames: blank headers dropped, repeats suffixed.          *)

CountOf(counts, key) == IF key \in DOMAIN counts THEN counts[key] ELSE 0

RECURSIVE SanitizeFrom(_, _, _, _, _)
SanitizeFrom(fieldnames, i, sanitized, dmap, counts) ==
  IF i > Len(fieldnames) THEN [sanitized |-> sanitized, display_map |-> dmap]
  ELSE
    LET cleaned == Strip(fieldnames[i])
        count == CountOf(counts, cleaned)
        alias == IF count = 0 THEN cleaned ELSE cleaned \o "__" \o ToString(count)
    IN  IF cleaned = "" THEN SanitizeFrom(fieldnames, i + 1, sanitized, dmap, counts)
        ELSE SanitizeFrom(fieldnames, i + 1, Append(sanitized, alias),
                          (alias :> cleaned) @@ dmap, (cleaned :> count + 1) @@ counts)

_sanitize_fieldnames(fieldnames) == SanitizeFrom(fieldnames, 1, << >>, << >>, << >>)

RECURSIVE KeysInOrder(_, _)
\* list(d.keys()) of a dict filled in the order of `inserted`
KeysInOrder(inserted, acc) ==
  IF inserted = << >> THEN acc
  ELSE KeysInOrder(Tail(inserted),
                   IF Head(inserted) \in Range(acc) THEN acc ELSE Append(acc, Head(inserted)))

----------------------------------------------------------------------------
(* _infer_column_mapping.                                                  *)

\* Scores depend on a column's header and cells alone: they are tabulated
\* over the headers and value columns of the model.
\* A function given by a rule, as the table of its values.
Tabulated(f) == f @@ << >>

NormalizedHeaderOf == Tabulated([h \in HEADERS |-> _normalize_text(h)])

NameScoreOf ==
  Tabulated([h \in HEADERS |->
    Tabulated([field \in Fields |->
      _score_header_match(NormalizedHeaderOf[h], CSV_FIELD_ALIASES[field])])])

ValueScoreOf ==
  Tabulated([h \in HEADERS |->
    Tabulated([values \in ValueColumns |->
      Tabulated([field \in Range(INFERENCE_FIELDS) |->
        inference_rules(field, NormalizedHeaderOf[h], values)])])])

\* The tables cover the headers and value columns of the mapping model; the
\* score of another header or column is computed where it is needed.
normalized_headers(column) ==
  IF display_map[column] \in DOMAIN NormalizedHeaderOf
    THEN NormalizedHeaderOf[display_map[column]]
  ELSE _normalize_text(display_map[column])

collect_values(column) == [r \in 1..Len(rows) |-> rows[r][column]]

NoColumn == ""

\* Mutation of IsCandidate: a taken column is never skipped.
IsCandidate_IgnoresUsed(field, column, used) == TRUE

\* `if column in used_columns and field not in reusable_fields: continue`
IsCandidate(field, column, used) == ~(column \in used /\ field \notin reusable_fields)

\* The loop `if score > best_score`: the first column, in order, of the
\* highest positive score among the candidates.
BestColumn(field, used, score(_)) ==
  With({ i \in 1..Len(columns) : IsCandidate(field, columns[i], used) }, LAMBDA cand :
  With(Tabulated([i \in cand |-> score(columns[i])]), LAMBDA scores :
  With({ i \in cand : /\ RLess(Zero, scores[i])
                      /\ \A j \in cand : RLeq(scores[j], scores[i]) }, LAMBDA top :
    IF top = {} THEN [column |-> NoColumn, score |-> Zero]
    ELSE With(CHOOSE k \in top : \A j \in top : k <= j, LAMBDA i :
           [column |-> columns[i], score |-> scores[i]]))))

Accept(st, field, best, matched_by) ==
  [mapping |-> (field :> best.column) @@ st.mapping,
   used_columns |-> IF field \in reusable_fields THEN st.used_columns
                    ELSE st.used_columns \cup {best.column},
   diagnostics |-> (field :> [column |-> display_map[best.column],
                              score |-> Round3(best.score),
                              matched_by |-> matched_by]) @@ st.diagnostics]

NameScore(field, column) ==
  IF display_map[column] \in DOMAIN NameScoreOf
    THEN NameScoreOf[display_map[column]][field]
  ELSE _score_header_match(normalized_headers(column), CSV_FIELD_ALIASES[field])

\* One iteration of `for field, aliases in CSV_FIELD_ALIASES.items()`.
NameStep(st, field) ==
  With(BestColumn(field, st.used_columns, LAMBDA c : NameScore(field, c)), LAMBDA best :
    IF best.column # NoColumn /\ RLeq(NAME_THRESHOLD, best.score)
      THEN Accept(st, field, best, "alias") ELSE st)

RECURSIVE NamePassFrom(_, _, _)
\* The iterations lo..hi of the loop, in order, from `st`: the first half of
\* them, then the second half from what the first half leaves.
NamePassFrom(lo, hi, st) ==
  IF lo > hi THEN st
  ELSE IF lo = hi THEN NameStep(st, CSV_FIELD_NAMES[lo])
  ELSE With(NamePassFrom(lo, (lo + hi) \div 2, st), LAMBDA half :
         NamePassFrom((lo + hi) \div 2 + 1, hi, half))

ValueScore(field, column) ==
  IF display_map[column] \in DOMAIN ValueScoreOf
       /\ collect_values(column) \in DOMAIN ValueScoreOf[display_map[column]]
    THEN ValueScoreOf[display_map[column]][collect_values(column)][field]
  ELSE inference_rules(field, normalized_headers(column), collect_values(column))

\* One iteration of `for field, scorer in inference_rules.items()`.
ValueStep(st, field) ==
  With(BestColumn(field, st.used_columns, LAMBDA c : ValueScore(field, c)), LAMBDA best :
    IF field \notin DOMAIN st.mapping /\ best.column # NoColumn
         /\ RLeq(VALUE_THRESHOLD, best.score)
      THEN Accept(st, field, best, "values") ELSE st)

RECURSIVE ValuePassFrom(_, _, _)
\* The iterations lo..hi of the loop, in order, from `st`.
ValuePassFrom(lo, hi, st) ==
  IF lo > hi THEN st
  ELSE IF lo = hi THEN ValueStep(st, INFERENCE_FIELDS[lo])
  ELSE With(ValuePassFrom(lo, (lo + hi) \div 2, st), LAMBDA half :
         ValuePassFrom((lo + hi) \div 2 + 1, hi, half))

PrefersTotal(header) ==
  /\ Contains(header, "valor") \/ Contains(header, "total")
  /\ ~Contains(header, "chave")
  /\ ~Contains(header, "modelo")

PrefersDescription(header) ==
  /\ \/ Contains(header, "descricao")
     \/ Contains(header, "produto servico")
     \/ Contains(header, "produto") /\ Contains(header, "descricao")
  /\ ~Contains(header, "numero")
  /\ ~Contains(header, "cod")

\* Mutation of PreferSkipsUsed: the adjustment re-homes onto a taken column.
PreferSkipsUsed_Never(field, column, used) == FALSE

\* `if column in used_columns and field not in reusable_fields: continue`
PreferSkipsUsed(field, column, used) == column \in used /\ field \notin reusable_fields

_prefer_column(st, field, predicate(_)) ==
  With(IF field \in DOMAIN st.mapping THEN st.mapping[field] ELSE NoColumn, LAMBDA current :
  With({ i \in 1..Len(columns) :
           /\ columns[i] # current
           /\ predicate(normalized_headers(columns[i]))
           /\ ~PreferSkipsUsed(field, columns[i], st.used_columns) }, LAMBDA targets :
    IF current = NoColumn \/ predicate(normalized_headers(current)) \/ targets = {} THEN st
    ELSE With(columns[CHOOSE k \in targets : \A j \in targets : k <= j], LAMBDA column :
           [mapping |-> [st.mapping EXCEPT ![field] = column],
            used_columns |-> IF field \in reusable_fields THEN st.used_columns
                             ELSE (st.used_columns \ {current}) \cup {column},
            diagnostics |-> [st.diagnostics EXCEPT ![field] =
                               [column |-> display_map[column], score |-> 1000,
                                matched_by |-> "alias_adjustment"]]])))

CurrentMapping == [mapping |-> mapping, used_columns |-> used_columns, diagnostics |-> diagnostics]

\* The name pass (source lines 692-710).
NamePass ==
  /\ pc = "infer"
  /\ \E st \in {NamePassFrom(1, Len(CSV_FIELD_NAMES), CurrentMapping)} :
       /\ mapping' = st.mapping
       /\ used_columns' = st.used_columns
       /\ diagnostics' = st.diagnostics
  /\ pc' = "named"
  /\ UNCHANGED << rows, display_map, columns, csvVars, batchVars, outVars, auxVars >>

\* The value-pattern pass (source lines 712-758).
ValuePass ==
  /\ pc = "named"
  /\ \E st \in {ValuePassFrom(1, Len(INFERENCE_FIELDS), CurrentMapping)} :
       /\ mapping' = st.mapping
       /\ used_columns' = st.used_columns
       /\ diagnostics' = st.diagnostics
  /\ pc' = "valued"
  /\ UNCHANGED << rows, display_map, columns, csvVars, batchVars, outVars, auxVars >>

\* The adjustment pass (source lines 760-798) and the return.
AdjustPass ==
  /\ pc = "valued"
  /\ \E st \in {_prefer_column(_prefer_column(CurrentMapping, "valor_total_nfe", PrefersTotal),
                                "produto_nome", PrefersDescription)} :
       /\ mapping' = st.mapping
       /\ used_columns' = st.used_columns
       /\ diagnostics' = st.diagnostics
  /\ pc' = "mapped"
  /\ UNCHANGED << rows, display_map, columns, csvVars, batchVars, outVars, auxVars >>

\* A non-empty list of rows over the sanitized columns of a header list;
\* a row the readers keep has at least one non-empty cell.
InitMap ==
  /\ pc = "infer"
  /\ \E fieldnames \in HeaderLists :
       \E s \in {_sanitize_fieldnames(fieldnames)} :
         /\ columns = KeysInOrder(s.sanitized, << >>)
         /\ display_map = s.display_map
         /\ rows \in SeqsUpTo({ row \in [Range(s.sanitized) -> VALUES] :
                                 \E c \in DOMAIN row : row[c] # "" }, MaxRows)
  /\ mapping = << >>
  /\ diagnostics = << >>
  /\ used_columns = {}
  /\ CsvIdle /\ BatchIdle /\ OutIdle /\ AuxIdle

NextMap == NamePass \/ ValuePass \/ AdjustPass

SpecMap == InitMap /\ [][NextMap]_vars

----------------------------------------------------------------------------
(* Properties of the column mapping.                                       *)

Mapped == pc = "mapped"
AfterAPass == pc \in {"named", "valued", "mapped"}

\* C1 as stated: the mapping returned by _infer_column_mapping maps at most
\* as many canonical fields as there are raw columns.
C1_FieldCountWithinColumns == Mapped => Cardinality(DOMAIN mapping) <= Len(columns)

\* C1 amended: the fields other than the reusable valor_total_nfe are at
\* most as many as the raw columns, so the mapping has at most one field
\* more than there are columns.
C1_NonReusableFieldsWithinColumns ==
  Mapped => /\ Cardinality(DOMAIN mapping \ {"valor_total_nfe"}) <= Len(columns)
            /\ Cardinality(DOMAIN mapping) <= Len(columns) + 1

\* The returned mapping has one field more than the document has columns.
C1_Witness == Mapped /\ Cardinality(DOMAIN mapping) = Len(columns) + 1

BelowNameThreshold(field) ==
  \A c \in Range(columns) : RLess(NameScore(field, c), Rat(65, 100))

BelowValueThreshold(field) ==
  field \in Range(INFERENCE_FIELDS) =>
    \A c \in Range(columns) : RLess(ValueScore(field, c), Rat(55, 100))

\* C2: after every pass, a field matched by name has a recorded score of at
\* least 0.65 and its column a name score of at least 0.65, a field matched
\* by value pattern has a recorded score of at least 0.55 and its column a
\* value score of at least 0.55, and a field none of whose candidates
\* reaches its threshold is not in the mapping.
C2_AcceptedAtOrAboveThreshold ==
  AfterAPass =>
    /\ \A f \in DOMAIN diagnostics :
         /\ diagnostics[f].matched_by = "alias" =>
              diagnostics[f].score >= 650 /\ ~BelowNameThreshold(f)
         /\ diagnostics[f].matched_by = "values" =>
              diagnostics[f].score >= 550 /\ ~BelowValueThreshold(f)
    /\ \A f \in Fields : BelowNameThreshold(f) /\ BelowValueThreshold(f) => f \notin DOMAIN mapping

\* A returned mapping with a name match, a value match, and a field left
\* out whose best candidate scored above zero and below the threshold.
C2_Witness ==
  /\ Mapped
  /\ \E f \in DOMAIN diagnostics : diagnostics[f].matched_by = "alias"
  /\ \E f \in DOMAIN diagnostics : diagnostics[f].matched_by = "values"
  /\ \E f \in Fields \ DOMAIN mapping :
       /\ BelowNameThreshold(f) /\ BelowValueThreshold(f)
       /\ \E c \in Range(columns) : RLess(Zero, NameScore(f, c))

\* C3 as stated: every recorded confidence score lies in [0, 1] (scores are
\* recorded in thousandths).
C3_ScoresWithinUnitInterval ==
  \A f \in DOMAIN diagnostics : diagnostics[f].score >= 0 /\ diagnostics[f].score <= 1000

\* C4: after every pass, two distinct fields mapped to the same raw column
\* include valor_total_nfe.
C4_OneFieldPerColumn ==
  AfterAPass =>
    \A f, g \in DOMAIN mapping :
      f # g /\ mapping[f] = mapping[g] => "valor_total_nfe" \in {f, g}

\* The adjustment pass re-homed valor_total_nfe onto a column that another
\* field holds.
C4_Witness ==
  /\ Mapped
  /\ "valor_total_nfe" \in DOMAIN mapping
  /\ diagnostics["valor_total_nfe"].matched_by = "alias_adjustment"
  /\ \E f \in DOMAIN mapping \ {"valor_total_nfe"} : mapping[f] = mapping["valor_total_nfe"]

----------------------------------------------------------------------------
(* Reading delimited text: _detect_csv_delimiter, _detect_header_row_index *)
(* and _read_csv_rows.  The texts of the model hold no quote character and *)
(* break lines with "\n" alone, so csv.reader yields a row per line and a  *)
(* cell per piece between delimiters.  The two answers of csv.Sniffer, the *)
(* sniffed delimiter and has_header, are inputs of the operators: the      *)
(* callers draw them from everything the library may answer.               *)

Max(a, b) == IF a >= b THEN a ELSE b
Min(a, b) == IF a <= b THEN a ELSE b

\* str.splitlines()
SplitLines(text) ==
  LET parts == SplitOn(text, {"\n"})
  IN  IF text = "" THEN << >>
      ELSE IF Ch(text, Len(text)) = "\n" THEN SubSeq(parts, 1, Len(parts) - 1)
      ELSE parts

RECURSIVE Join(_, _)
\* sep.join(pieces)
Join(pieces, sep) ==
  IF pieces = << >> THEN ""
  ELSE IF Len(pieces) = 1 THEN pieces[1]
  ELSE pieces[1] \o sep \o Join(Tail(pieces), sep)

\* str.count(c)
CountChar(s, c) == Len(KeepChars(s, {c}))

\* The keys of `counters`, in insertion order.
DELIMITERS == << ",", ";", "\t", "|" >>

\* sample_text.splitlines()[:50]
SampleLines(sample_text) ==
  With(SplitLines(sample_text), LAMBDA lines : SubSeq(lines, 1, Min(50, Len(lines))))

\* None
NoDelimiter == ""

\* What sniffer.sniff(sample, delimiters=",;|\t") may answer: one of the
\* delimiters that occur in the sample, or csv.Error (candidate = None).
SniffAnswers(sample_text) ==
  With(Join(SampleLines(sample_text), "\n"), LAMBDA sample :
    {NoDelimiter} \cup { d \in Range(DELIMITERS) : HasChar(sample, d) })

\* Mutation of _detect_csv_delimiter: the semicolon is taken only when it
\* is at least as frequent as the comma.
_detect_csv_delimiter_NoTolerance(sample_text, candidate) ==
  With(SampleLines(sample_text), LAMBDA sample_lines :
  With(Join(sample_lines, "\n"), LAMBDA sample :
  With(Tabulated([d \in Range(DELIMITERS) |-> CountChar(sample, d)]), LAMBDA counters :
  \* counters.most_common(1)[0]: the first key of the highest count
  With(DELIMITERS[CHOOSE i \in 1..Len(DELIMITERS) :
         /\ \A j \in 1..Len(DELIMITERS) : counters[DELIMITERS[j]] <= counters[DELIMITERS[i]]
         /\ \A j \in 1..(i - 1) : counters[DELIMITERS[j]] < counters[DELIMITERS[i]]],
       LAMBDA delimiter :
    IF candidate # NoDelimiter
      THEN IF /\ candidate = ","
              /\ counters[";"] >= Max(1, Len(sample_lines))
              /\ 10 * counters[";"] >= 10 * counters[","]
             THEN ";" ELSE candidate
    ELSE IF counters[delimiter] = 0 THEN ","
    ELSE delimiter))))

_detect_csv_delimiter(sample_text, candidate) ==
  With(SampleLines(sample_text), LAMBDA sample_lines :
  With(Join(sample_lines, "\n"), LAMBDA sample :
  With(Tabulated([d \in Range(DELIMITERS) |-> CountChar(sample, d)]), LAMBDA counters :
  \* counters.most_common(1)[0]: the first key of the highest count
  With(DELIMITERS[CHOOSE i \in 1..Len(DELIMITERS) :
         /\ \A j \in 1..Len(DELIMITERS) : counters[DELIMITERS[j]] <= counters[DELIMITERS[i]]
         /\ \A j \in 1..(i - 1) : counters[DELIMITERS[j]] < counters[DELIMITERS[i]]],
       LAMBDA delimiter :
    IF candidate # NoDelimiter
      THEN IF /\ candidate = ","
              /\ counters[";"] >= Max(1, Len(sample_lines))
              /\ 12 * counters[";"] >= 10 * counters[","]
             THEN ";" ELSE candidate
    ELSE IF counters[delimiter] = 0 THEN ","
    ELSE delimiter))))

_contains_alpha(value) == \E i \in 1..Len(value) : IsAlphaChar(Ch(value, i))

_looks_numeric(value) ==
  LET cleaned == Strip(value)
      bare == KeepChars(cleaned, CharsOf(cleaned) \ {",", "-", ".", " ", "\t", "\n", "\r"})
  IN  cleaned # "" /\ bare # "" /\ CharsOf(bare) \subseteq DigitChars

_is_data_like_row(row) ==
  /\ row # << >>
  /\ \/ 2 * CountIf(row, _looks_numeric) >= Len(row)
     \/ \E i \in 1..Len(row) : Len(KeepChars(row[i], DigitChars)) >= 10

\* None
NoHeader == -1

\* alpha_ratio * 0.6 + uniqueness * 0.3 + punctuation * 0.1 - numeric_ratio * 0.4
\* of a row, in tenths of a cell: each ratio is a count over max(total, 1).
HeaderBaseScore(row) ==
  6 * CountIf(row, _contains_alpha)
  + 3 * Cardinality({ Lower(Strip(row[i])) : i \in { j \in 1..Len(row) : Strip(row[j]) # "" } })
  + CountIf(row, LAMBDA cell : HasChar(cell, ":") \/ HasChar(cell, "-"))
  - 4 * CountIf(row, _looks_numeric)

\* The score of a candidate header row: the base score, less 0.5 without a
\* cell of letters and less 0.4 for a row that looks like data.
HeaderRowScore(row) ==
  Rat(HeaderBaseScore(row)
        - (Bonus(CountIf(row, _contains_alpha) = 0, 5) + Bonus(_is_data_like_row(row), 4))
            * Max(Len(row), 1),
      10 * Max(Len(row), 1))

\* The index (from 0) of the header row, has_header being the answer of
\* sniffer.has_header (csv.Error counts as FALSE).
_detect_header_row_index(raw_rows, has_header) ==
  With(1..Min(5, Len(raw_rows)), LAMBDA first5 :
  With(Tabulated([i \in first5 |-> HeaderRowScore(raw_rows[i])]), LAMBDA score :
  With({ i \in first5 : /\ RLess(Zero, score[i])
                        /\ \A j \in first5 : RLeq(score[j], score[i]) }, LAMBDA best :
    IF raw_rows = << >> THEN NoHeader
    ELSE IF /\ has_header
            /\ ~(/\ Len(raw_rows) > 1
                 /\ _is_data_like_row(raw_rows[1])
                 /\ _is_data_like_row(raw_rows[2]))
      THEN 0
    ELSE IF best = {} THEN NoHeader
    ELSE With(CHOOSE i \in best : \A j \in best : i <= j, LAMBDA best_idx :
           IF RLeq(Rat(2, 10), score[best_idx]) THEN best_idx - 1 ELSE NoHeader))))

_generate_synthetic_headers(width) == [index \in 1..width |-> "column_" \o ToString(index)]

\* csv.reader(buffer, delimiter=delimiter, skipinitialspace=True)
CsvReader(text, delimiter) ==
  With(SplitLines(text), LAMBDA lines :
    [i \in 1..Len(lines) |->
       IF lines[i] = "" THEN << >>
       ELSE With(SplitOn(lines[i], {delimiter}), LAMBDA cells :
              [k \in 1..Len(cells) |-> LStrip(cells[k])])])

\* max(len(row) for row in rows)
MaxLen(seqs) ==
  CHOOSE n \in { Len(seqs[i]) : i \in 1..Len(seqs) } : \A i \in 1..Len(seqs) : Len(seqs[i]) <= n

\* The tuple _read_csv_rows returns: `arity` is the number of its members,
\* two on the path that returns `[], {}`.
ReadResult(arity, read_rows, read_display_map, header_index, column_count) ==
  [arity |-> arity, rows |-> read_rows, display_map |-> read_display_map,
   header_index |-> header_index, column_count |-> column_count]

\* The rows the reader yields that have a non-empty cell, their cells stripped.
RawRows(text, delimiter) ==
  With(CsvReader(text, delimiter), LAMBDA read :
    SelectSeq([i \in 1..Len(read) |-> [k \in 1..Len(read[i]) |-> Strip(read[i][k])]],
              LAMBDA row : row # << >> /\ \E k \in 1..Len(row) : row[k] # ""))

\* The header cells and the rows under them.
SplitHeader(raw_rows, header_idx) ==
  IF header_idx = NoHeader
    THEN [header |-> _generate_synthetic_headers(MaxLen(raw_rows)), data_rows |-> raw_rows]
  ELSE [header |-> raw_rows[header_idx + 1],
        data_rows |-> SubSeq(raw_rows, header_idx + 2, Len(raw_rows))]

\* The sanitized header, a synthetic one when no cell of it is left.
FieldsOf(header, data_rows) ==
  With(_sanitize_fieldnames(header), LAMBDA named :
    IF named.sanitized # << >> THEN named
    ELSE _sanitize_fieldnames(_generate_synthetic_headers(
           IF data_rows # << >> THEN MaxLen(data_rows) ELSE Len(header))))

\* dict(zip(sanitized_fieldnames, normalized_row)): the row padded or cut to
\* the columns; of two cells under one identifier the later one stays.
RowDict(raw_row, sanitized_fieldnames) ==
  [field \in Range(sanitized_fieldnames) |->
     With(Last({ j \in 1..Len(sanitized_fieldnames) : sanitized_fieldnames[j] = field }),
          LAMBDA k : IF k <= Len(raw_row) THEN Strip(raw_row[k]) ELSE "")]

\* any(value for value in row_dict.values())
HasValue(row_dict) == \E field \in DOMAIN row_dict : row_dict[field] # ""

\* The dicts of the rows; the rows with a non-empty cell are kept.
RowDicts(data_rows, sanitized_fieldnames) ==
  SelectSeq([i \in 1..Len(data_rows) |-> RowDict(data_rows[i], sanitized_fieldnames)], HasValue)

_read_csv_rows(text, sniffed, has_header) ==
  IF text = "" THEN ReadResult(3, << >>, << >>, NoHeader, 0)
  ELSE
    With(RawRows(text, _detect_csv_delimiter(text, sniffed)), LAMBDA raw_rows :
      IF raw_rows = << >> THEN ReadResult(2, << >>, << >>, NoHeader, 0)
      ELSE
        With(_detect_header_row_index(raw_rows, has_header), LAMBDA header_idx :
        With(SplitHeader(raw_rows, header_idx), LAMBDA split :
        With(FieldsOf(split.header, split.data_rows), LAMBDA fields :
          ReadResult(3, RowDicts(split.data_rows, fields.sanitized), fields.display_map,
                     header_idx, Len(fields.sanitized))))))

----------------------------------------------------------------------------
(* A delimited document through extract_documents, as a file of its own    *)
(* (_handle_single_file, _parse_csv) or as the member of an archive        *)
(* (_handle_zip).                                                          *)

\* The lines of the texts of the model.
CSV_LINES == {"", "  ", "Item;Valor Total", "Produto A;10,50"}

RECURSIVE TextOf(_)
TextOf(lines) == IF lines = << >> THEN "" ELSE Head(lines) \o "\n" \o TextOf(Tail(lines))

CsvTexts == { TextOf(lines) : lines \in UNION { [1..k -> CSV_LINES] : k \in 0..MaxLines } }

\* An ImportedDoc: `data` holds a record per row (data or None is << >>
\* for no record).
ImportedDoc(kind, name, status, data, error) ==
  [kind |-> kind, name |-> name, status |-> status, data |-> data, error |-> error]

\* `rows, display_map, structure_meta = _read_csv_rows(text)` raises
\* ValueError when the tuple has two members.
UnpackRaises(read) == read.arity # 3

\* data of _convert_tabular_rows: a record per row.
ConvertedData(read) == read.rows

\* `status = "parsed" if data else "error"`
StatusOf(data) == IF data # << >> THEN "parsed" ELSE "error"

NoRowsError == "Nenhuma linha encontrada no CSV."

\* The document of a delimited text once its rows are read.
CsvDoc(name, read) ==
  ImportedDoc("CSV", name, StatusOf(ConvertedData(read)), ConvertedData(read),
              IF read.rows = << >> THEN NoRowsError ELSE "")

\* _handle_single_file on an existing .csv file: an exception of the
\* parse is caught and reported by the document.
HandleCsvFile ==
  /\ pc = "csv_start"
  /\ container = "file"
  /\ \E sniffed \in SniffAnswers(csv_text), has_header \in BOOLEAN :
       \E read \in {_read_csv_rows(csv_text, sniffed, has_header)} :
         /\ csv_read' = read
         /\ docs' = IF UnpackRaises(read)
                      THEN << ImportedDoc("CSV", "doc.csv", "error", << >>, "ValueError") >>
                      ELSE << CsvDoc("doc.csv", read) >>
         /\ outcome' = "running"
  /\ pc' = "csv_handled"
  /\ UNCHANGED << csv_text, container, mapVars, batchVars, auxVars >>

\* _handle_zip on an archive of one .csv member: nothing catches an
\* exception of the member.
HandleCsvMember ==
  /\ pc = "csv_start"
  /\ container = "zip"
  /\ \E sniffed \in SniffAnswers(csv_text), has_header \in BOOLEAN :
       \E read \in {_read_csv_rows(csv_text, sniffed, has_header)} :
         /\ csv_read' = read
         /\ docs' = IF UnpackRaises(read) THEN << >> ELSE << CsvDoc("doc.csv", read) >>
         /\ outcome' = IF UnpackRaises(read) THEN "raising" ELSE "running"
  /\ pc' = "csv_handled"
  /\ UNCHANGED << csv_text, container, mapVars, batchVars, auxVars >>

\* extract_documents returns the documents of its one path.
ReturnCsvDocs ==
  /\ pc = "csv_handled"
  /\ outcome = "running"
  /\ outcome' = "returned"
  /\ pc' = "csv_finished"
  /\ UNCHANGED << docs, csvVars, mapVars, batchVars, auxVars >>

\* The exception of the member leaves extract_documents.
RaiseCsvError ==
  /\ pc = "csv_handled"
  /\ outcome = "raising"
  /\ outcome' = "raised"
  /\ pc' = "csv_finished"
  /\ UNCHANGED << docs, csvVars, mapVars, batchVars, auxVars >>

InitCsv ==
  /\ pc = "csv_start"
  /\ csv_text \in CsvTexts
  /\ container \in {"file", "zip"}
  /\ csv_read = << >>
  /\ MapIdle /\ BatchIdle /\ OutIdle /\ AuxIdle

NextCsv == HandleCsvFile \/ HandleCsvMember \/ ReturnCsvDocs \/ RaiseCsvError

SpecCsv == InitCsv /\ [][NextCsv]_vars

----------------------------------------------------------------------------
(* Properties of delimited documents without data rows.                    *)

CsvHandled == pc \in {"csv_handled", "csv_finished"}

\* The document was read and yielded no data row.
ZeroDataRows == CsvHandled /\ csv_read.rows = << >>

\* C5 as stated: a delimited document that yields zero data rows, as a
\* file or as an archive member, gets one result of status 'error' that
\* carries no record, and no exception leaves the call.
C5_ZeroRowsReportedAsError ==
  ZeroDataRows =>
    /\ outcome \in {"running", "returned"}
    /\ Len(docs) = 1
    /\ docs[1].status = "error"
    /\ docs[1].data = << >>

\* An archive member of blank lines alone: the call ended by raising and
\* reported no document.
C5_Witness ==
  /\ pc = "csv_finished"
  /\ container = "zip"
  /\ csv_text # ""
  /\ csv_read.arity = 2
  /\ outcome = "raised"
  /\ docs = << >>

----------------------------------------------------------------------------
(* extract_documents over a batch of paths: _process_path, _handle_zip and *)
(* _handle_single_file.  A run of _process_path is a task; on the parallel *)
(* path the tasks are the futures of the thread pool and their steps       *)
(* interleave, on the sequential path one task runs at a time.  The steps  *)
(* of a task are the file-system operations of _handle_zip on a temporary  *)
(* path (write_bytes, the read of the parser, exists, unlink); everything  *)
(* else of a task touches no shared state and is one step.                 *)

\* ThreadPoolExecutor(max_workers=min(4, total))
MAX_WORKERS == 4

\* Path.name
PathName(path) == SubSeq(path, RFind(path, "/") + 1, Len(path))

\* Path.parent
PathParent(path) == SubSeq(path, 1, RFind(path, "/") - 1)

RECURSIVE _sanitize_filename(_)
_sanitize_filename(filename) ==
  IF filename = "" THEN ""
  ELSE (IF \/ IsAlphaChar(Ch(filename, 1))
           \/ Ch(filename, 1) \in DigitChars \cup {"_", "-", "."}
          THEN Ch(filename, 1) ELSE "_")
       \o _sanitize_filename(SubSeq(filename, 2, Len(filename)))

\* path.suffix.lower().lstrip(".")
_get_extension(path) ==
  With(PathName(path), LAMBDA name :
  With(RFind(name, "."), LAMBDA dot :
    IF dot <= 1 \/ dot = Len(name) THEN ""
    ELSE Lower(SubSeq(name, dot + 1, Len(name)))))

\* filename.lower().split(".")[-1]
MemberExtension(filename) ==
  With(SplitOn(Lower(filename), {"."}), LAMBDA pieces : pieces[Len(pieces)])

\* SUPPORTED_KINDS.get(ext, "UNSUPPORTED")
SUPPORTED_KINDS(ext) ==
  CASE ext = "xml" -> "NFE_XML"
    [] ext = "csv" -> "CSV"
    [] ext = "json" -> "CSV"
    [] ext = "pdf" -> "PDF"
    [] ext = "ocr" -> "OCR_TEXT"
    [] OTHER -> "UNSUPPORTED"

\* The extensions whose members go through a temporary file.
TMP_EXTENSIONS == {"pdf", "ocr"}

\* path.parent / f"__tmp_{_sanitize_filename(info.filename)}"
TmpPath(path, member_name) ==
  PathParent(path) \o "/__tmp_" \o _sanitize_filename(member_name)

\* The files of the directory the batch is drawn from.  `readable`: the
\* content parses (rows, a document, an archive); `members`: the member
\* names of an archive, in infolist() order.
DISK ==
  [path \in {"in/a.csv", "in/b.xml", "in/notes.txt", "in/bad.zip", "in/x.zip", "in/y.zip"} |->
     CASE path = "in/a.csv" -> [readable |-> TRUE, members |-> << >>]
       [] path = "in/b.xml" -> [readable |-> FALSE, members |-> << >>]
       [] path = "in/notes.txt" -> [readable |-> TRUE, members |-> << >>]
       [] path = "in/bad.zip" -> [readable |-> FALSE, members |-> << >>]
       [] path = "in/x.zip" -> [readable |-> TRUE, members |-> << "itens.csv", "scan.ocr" >>]
       [] path = "in/y.zip" -> [readable |-> TRUE, members |-> << "scan.ocr", "nota.pdf" >>]]

\* The paths a batch may name: the files of the directory and one that
\* does not exist.
PATHS == DOMAIN DISK \cup {"in/gone.csv"}

OnDisk(path) == path \in DOMAIN DISK

Members(path) == DISK[path].members

\* The bytes of a member of an archive.
MemberContent(path, member_name) == PathName(path) \o ":" \o member_name

\* meta["processing_stats"]["parallelized"] of a document of the batch:
\* the parsed .csv, .pdf and .ocr documents carry the processing_stats of
\* _SemanticAnalyzer.finalize, with False; << >> when the meta holds no
\* processing_stats.
StatsOf(kind, status) ==
  IF status = "parsed" /\ kind \in {"CSV", "PDF", "OCR_TEXT"} THEN << FALSE >> ELSE << >>

\* An ImportedDoc of a batch: `text` is what the parser read from a file
\* ("" for None), `source_zip` is meta["source_zip"] ("" outside archives).
FileDoc(kind, name, status, text, source_zip) ==
  [kind |-> kind, name |-> name, status |-> status, text |-> text, source_zip |-> source_zip,
   parallelized |-> StatsOf(kind, status)]

\* A run of _process_path.  `step` is the next operation, `member` the
\* member of the archive at hand (from 1), `parsed` what the parser of
\* the member returned, `error` the exception that is propagating.
Task(state, member, step, task_docs, parsed, error) ==
  [state |-> state, member |-> member, step |-> step, docs |-> task_docs,
   parsed |-> parsed, error |-> error]

Queued == Task("queued", 0, "open", << >>, << >>, "")

\* The run returned its documents.
Done(task_docs) == Task("done", 0, "end", task_docs, << >>, "")

\* An exception left the run.
Raised(error) == Task("raised", 0, "end", << >>, << >>, error)

\* Mutation of Parallel: the pool is used whenever more than one path is
\* submitted.
Parallel_IgnoringCallback == Len(file_list) > 1

\* `total > 1 and progress_callback is None`
Parallel == Len(file_list) > 1 /\ ~progress_callback

\* The tasks a worker thread is running.
Running == { j \in 1..Len(tasks) : tasks[j].state = "running" }

Ended(j) == tasks[j].state \in {"done", "raised"}

\* The temporary files that exist.
TmpFiles == DOMAIN fs

\* A call progress_callback(index, total): `level` tells the loop that
\* made it, over the submitted paths ("file") or over the members of the
\* archive at path `file` ("member").
ProgressCall(level, file, index, total) ==
  [level |-> level, file |-> file, index |-> index, total |-> total]

\* `if progress_callback: progress_callback(index, total)`
Report(call) == IF progress_callback THEN Append(progress_calls, call) ELSE progress_calls

\* The task of path i becomes `task`; a task that ends is recorded, and
\* on the sequential path its documents extend the result at once.
Settle(i, task) ==
  /\ tasks' = [tasks EXCEPT ![i] = task]
  /\ completion_order' =
       IF task.state \in {"done", "raised"} THEN Append(completion_order, i)
       ELSE completion_order
  /\ docs' = IF task.state = "done" /\ ~Parallel THEN docs \o task.docs ELSE docs

\* The task after member `task.member` yielded `member_docs`: the next
\* member, or the return of _handle_zip after the last one.
AfterMember(path, task, member_docs) ==
  IF task.member = Len(Members(path)) THEN Done(task.docs \o member_docs)
  ELSE Task("running", task.member + 1, "member", task.docs \o member_docs, << >>, "")

\* executor.submit / the loop of the sequential path: the run of path i
\* starts, on the sequential path after its progress call.  The pool starts its tasks in submission order, at most
\* min(4, total) at a time; the loop starts a path when the one before
\* has returned.
StartTask(i) ==
  /\ pc \in {"batch_running", "batch_aborting"}
  /\ tasks[i].state = "queued"
  /\ \A j \in 1..(i - 1) : tasks[j].state # "queued"
  /\ IF Parallel THEN Cardinality(Running) < Min(MAX_WORKERS, Len(file_list))
     ELSE pc = "batch_running" /\ \A j \in 1..(i - 1) : tasks[j].state = "done"
  /\ tasks' = [tasks EXCEPT ![i] = Task("running", 0, "open", << >>, << >>, "")]
  /\ progress_calls' =
       IF Parallel THEN progress_calls
       ELSE Report(ProgressCall("file", i, i, Len(file_list)))
  /\ UNCHANGED << pc, file_list, progress_callback, fs, ordered_results, completion_order,
                  mapVars, csvVars, outVars, rowVars, pipeVars, textVars, readVars, sniffVars,
                  statusVars >>

\* _handle_single_file.  path.stat() of a missing file raises, also in
\* the handler of the exception of the parser.
HandleSingleFile(i) ==
  /\ tasks[i].state = "running"
  /\ _get_extension(file_list[i]) # "zip"
  /\ \E path \in {file_list[i]} :
     \E kind \in {SUPPORTED_KINDS(_get_extension(path))} :
       Settle(i, IF ~OnDisk(path) THEN Raised("FileNotFoundError")
                 ELSE IF kind = "UNSUPPORTED"
                   THEN Done(<< FileDoc(kind, PathName(path), "unsupported", "", "") >>)
                 ELSE IF DISK[path].readable
                   THEN Done(<< FileDoc(kind, PathName(path), "parsed", "", "") >>)
                 ELSE Done(<< FileDoc(kind, PathName(path), "error", "", "") >>))
  /\ UNCHANGED << pc, file_list, progress_callback, fs, ordered_results,
                  mapVars, csvVars, outcome, auxVars >>

\* `with ZipFile(path, "r") as archive`: nothing in _handle_zip catches
\* the exception of a missing or corrupt archive.
OpenZip(i) ==
  /\ tasks[i].state = "running"
  /\ tasks[i].step = "open"
  /\ _get_extension(file_list[i]) = "zip"
  /\ \E path \in {file_list[i]} :
       Settle(i, IF ~OnDisk(path) THEN Raised("FileNotFoundError")
                 ELSE IF ~DISK[path].readable THEN Raised("BadZipFile")
                 ELSE IF Members(path) = << >> THEN Done(<< >>)
                 ELSE Task("running", 1, "member", << >>, << >>, ""))
  /\ UNCHANGED << pc, file_list, progress_callback, fs, ordered_results,
                  mapVars, csvVars, outcome, auxVars >>

\* The progress call of a member and the member parsed from its bytes in
\* memory (xml, csv) or reported as unsupported.
HandleMemberInMemory(i) ==
  /\ tasks[i].state = "running"
  /\ tasks[i].step = "member"
  /\ \E path \in {file_list[i]} :
     \E name \in {Members(path)[tasks[i].member]} :
     \E ext \in {MemberExtension(_sanitize_filename(name))} :
       /\ ext \notin TMP_EXTENSIONS
       /\ Settle(i, AfterMember(path, tasks[i],
            << FileDoc(IF ext \in {"xml", "csv"} THEN SUPPORTED_KINDS(ext) ELSE "UNSUPPORTED",
                       _sanitize_filename(name),
                       IF ext \in {"xml", "csv"} THEN "parsed" ELSE "unsupported",
                       "", PathName(path)) >>))
       /\ progress_calls' =
            Report(ProgressCall("member", i, tasks[i].member, Len(Members(path))))
  /\ UNCHANGED << pc, file_list, progress_callback, fs, ordered_results,
                  mapVars, csvVars, outcome, rowVars, pipeVars, textVars, readVars, sniffVars,
                  statusVars >>

\* The progress call of a .pdf or .ocr member and
\* tmp_path.write_bytes(data_bytes): the file is created or overwritten.
WriteTmp(i) ==
  /\ tasks[i].state = "running"
  /\ tasks[i].step = "member"
  /\ \E path \in {file_list[i]} :
     \E name \in {Members(path)[tasks[i].member]} :
       /\ MemberExtension(_sanitize_filename(name)) \in TMP_EXTENSIONS
       /\ fs' = [p \in TmpFiles \cup {TmpPath(path, name)} |->
                   IF p = TmpPath(path, name) THEN [task |-> i, member |-> tasks[i].member]
                   ELSE fs[p]]
       /\ tasks' = [tasks EXCEPT ![i].step = "parse"]
       /\ progress_calls' =
            Report(ProgressCall("member", i, tasks[i].member, Len(Members(path))))
  /\ UNCHANGED << pc, file_list, progress_callback, ordered_results, completion_order,
                  mapVars, csvVars, outVars, rowVars, pipeVars, textVars, readVars, sniffVars,
                  statusVars >>

\* What the parser returns for the file at tmp_path.  _parse_pdf reports
\* a file it cannot read by its error; _parse_ocr raises on a missing
\* file.  The text is the content of whoever wrote the file last.
ParseResult(path, name, ext, tmp_path) ==
  IF tmp_path \in TmpFiles
    THEN << FileDoc(SUPPORTED_KINDS(ext), _sanitize_filename(name), "parsed",
                    MemberContent(file_list[fs[tmp_path].task],
                                  Members(file_list[fs[tmp_path].task])[fs[tmp_path].member]),
                    PathName(path)) >>
  ELSE IF ext = "pdf"
    THEN << FileDoc(SUPPORTED_KINDS(ext), _sanitize_filename(name), "error", "", PathName(path)) >>
  ELSE << >>

\* _parse_pdf(tmp_path) / _parse_ocr(tmp_path) inside the try block.
ParseTmp(i) ==
  /\ tasks[i].state = "running"
  /\ tasks[i].step = "parse"
  /\ \E path \in {file_list[i]} :
     \E name \in {Members(path)[tasks[i].member]} :
     \E parsed \in {ParseResult(path, name, MemberExtension(_sanitize_filename(name)),
                                TmpPath(path, name))} :
       tasks' = [tasks EXCEPT ![i].step = "exists",
                              ![i].parsed = parsed,
                              ![i].error = IF parsed = << >> THEN "FileNotFoundError" ELSE ""]
  /\ UNCHANGED << pc, file_list, progress_callback, fs, ordered_results, completion_order,
                  mapVars, csvVars, outVars, auxVars >>

\* Mutation of CleanupRuns: the finally block never calls unlink.
CleanupRuns_Never(exists) == FALSE

\* `if tmp_path.exists():` of the finally block: whether unlink is called.
CleanupRuns(exists) == exists

\* The finally block when unlink is not called: the exception of the
\* parser propagates, or the member is reported.
CheckExists(i) ==
  /\ tasks[i].state = "running"
  /\ tasks[i].step = "exists"
  /\ \E path \in {file_list[i]} :
     \E tmp_path \in {TmpPath(path, Members(path)[tasks[i].member])} :
       IF CleanupRuns(tmp_path \in TmpFiles)
         THEN /\ tasks' = [tasks EXCEPT ![i].step = "unlink"]
              /\ UNCHANGED << completion_order, docs >>
       ELSE Settle(i, IF tasks[i].error # "" THEN Raised(tasks[i].error)
                      ELSE AfterMember(path, tasks[i], tasks[i].parsed))
  /\ UNCHANGED << pc, file_list, progress_callback, fs, ordered_results,
                  mapVars, csvVars, outcome, auxVars >>

\* tmp_path.unlink(): FileNotFoundError when the file is gone since
\* exists() answered.
Unlink(i) ==
  /\ tasks[i].state = "running"
  /\ tasks[i].step = "unlink"
  /\ \E path \in {file_list[i]} :
     \E tmp_path \in {TmpPath(path, Members(path)[tasks[i].member])} :
       /\ fs' = [p \in TmpFiles \ {tmp_path} |-> fs[p]]
       /\ Settle(i, IF tmp_path \notin TmpFiles THEN Raised("FileNotFoundError")
                    ELSE IF tasks[i].error # "" THEN Raised(tasks[i].error)
                    ELSE AfterMember(path, tasks[i], tasks[i].parsed))
  /\ UNCHANGED << pc, file_list, progress_callback, ordered_results,
                  mapVars, csvVars, outcome, auxVars >>

\* `ordered_results.append((index, future.result()))` for the futures in
\* submission order: result() waits for the task and raises its exception.
Collect ==
  /\ pc = "batch_running"
  /\ Parallel
  /\ Len(ordered_results) < Len(file_list)
  /\ \E index \in {Len(ordered_results) + 1} :
       /\ Ended(index)
       /\ IF tasks[index].state = "done"
            THEN /\ ordered_results' =
                      Append(ordered_results, [index |-> index, docs |-> tasks[index].docs])
                 /\ pc' = pc
          ELSE /\ pc' = "batch_aborting"
               /\ UNCHANGED ordered_results
  /\ UNCHANGED << file_list, progress_callback, tasks, fs, completion_order,
                  mapVars, csvVars, outVars, auxVars >>

\* Mutation of SortByIndex: the chunks are sorted by descending index.
SortByIndex_Descending(results) ==
  [k \in 1..Len(results) |->
     CHOOSE item \in Range(results) :
       Cardinality({ other \in Range(results) : other.index > item.index }) = k - 1]

\* ordered_results.sort(key=lambda item: item[0])
SortByIndex(results) ==
  [k \in 1..Len(results) |->
     CHOOSE item \in Range(results) :
       Cardinality({ other \in Range(results) : other.index < item.index }) = k - 1]

RECURSIVE Extend(_)
\* parallel_docs.extend(docs_chunk) for each chunk
Extend(chunks) == IF chunks = << >> THEN << >> ELSE Head(chunks).docs \o Extend(Tail(chunks))

\* Mutation of MarkParallelized: the documents are returned as parsed.
MarkParallelized_Never(parallel_docs) == parallel_docs

\* `stats["parallelized"] = True` for every document whose meta holds a
\* processing_stats dict (lines 1762-1765)
MarkParallelized(parallel_docs) ==
  [k \in 1..Len(parallel_docs) |->
     IF parallel_docs[k].parallelized # << >>
       THEN [parallel_docs[k] EXCEPT !.parallelized = << TRUE >>]
     ELSE parallel_docs[k]]

\* extract_documents returns: the sorted chunks on the parallel path,
\* the documents gathered by the loop on the sequential path.
ReturnDocs ==
  /\ pc = "batch_running"
  /\ IF Parallel
       THEN /\ Len(ordered_results) = Len(file_list)
            /\ docs' = MarkParallelized(Extend(SortByIndex(ordered_results)))
     ELSE /\ \A j \in 1..Len(tasks) : tasks[j].state = "done"
          /\ docs' = docs
  /\ outcome' = "returned"
  /\ pc' = "batch_finished"
  /\ UNCHANGED << batchVars, mapVars, csvVars, auxVars >>

\* The exception of a task leaves extract_documents: at once on the
\* sequential path, after the pool has shut down (every task ended) on
\* the parallel path.
RaiseOut ==
  /\ IF Parallel
       THEN pc = "batch_aborting" /\ \A j \in 1..Len(tasks) : Ended(j)
     ELSE pc = "batch_running" /\ \E j \in 1..Len(tasks) : tasks[j].state = "raised"
  /\ docs' = << >>
  /\ outcome' = "raised"
  /\ pc' = "batch_finished"
  /\ UNCHANGED << batchVars, mapVars, csvVars, auxVars >>

InitBatch ==
  /\ pc = "batch_running"
  /\ file_list \in UNION { [1..k -> PATHS] : k \in 0..MaxFiles }
  /\ progress_callback \in BOOLEAN
  /\ tasks = [i \in 1..Len(file_list) |-> Queued]
  /\ fs = << >>
  /\ ordered_results = << >>
  /\ completion_order = << >>
  /\ MapIdle /\ CsvIdle /\ OutIdle /\ AuxIdle

NextBatch ==
  \/ \E i \in 1..Len(file_list) : StartTask(i)
  \/ \E i \in 1..Len(file_list) : HandleSingleFile(i)
  \/ \E i \in 1..Len(file_list) : OpenZip(i)
  \/ \E i \in 1..Len(file_list) : HandleMemberInMemory(i)
  \/ \E i \in 1..Len(file_list) : WriteTmp(i)
  \/ \E i \in 1..Len(file_list) : ParseTmp(i)
  \/ \E i \in 1..Len(file_list) : CheckExists(i)
  \/ \E i \in 1..Len(file_list) : Unlink(i)
  \/ Collect
  \/ ReturnDocs
  \/ RaiseOut

SpecBatch == InitBatch /\ [][NextBatch]_vars

----------------------------------------------------------------------------
(* Properties of a batch.                                                  *)

BatchFinished == pc = "batch_finished"

\* The path cannot be processed: it is missing, not of a supported
\* format, a corrupt archive or of malformed content.
Fails(path) ==
  \/ ~OnDisk(path)
  \/ ~DISK[path].readable
  \/ SUPPORTED_KINDS(_get_extension(path)) = "UNSUPPORTED" /\ _get_extension(path) # "zip"

\* C6 as stated: whatever files of a batch fail, extract_documents
\* returns, every path was processed, a failing path is reported by a
\* document of status 'error' or 'unsupported', and the documents are in
\* submission order.
C6_FailuresAreIsolated ==
  BatchFinished =>
    /\ outcome = "returned"
    /\ \A i \in 1..Len(file_list) :
         /\ tasks[i].state = "done"
         /\ Fails(file_list[i]) =>
              \E k \in 1..Len(tasks[i].docs) : tasks[i].docs[k].status \in {"error", "unsupported"}
    /\ docs = IF Parallel THEN MarkParallelized(Extend(tasks)) ELSE Extend(tasks)

\* A batch of a good file and a failing one ended by an exception and
\* returned nothing, though the good file had been parsed.
C6_Witness ==
  /\ BatchFinished
  /\ outcome = "raised"
  /\ docs = << >>
  /\ \E i \in 1..Len(file_list) :
       /\ tasks[i].state = "done"
       /\ \E k \in 1..Len(tasks[i].docs) : tasks[i].docs[k].status = "parsed"

\* C7: on the parallel path the documents returned are the documents of
\* each path, concatenated in submission order, in whatever order the
\* tasks ended.
C7_ParallelResultInSubmissionOrder ==
  (BatchFinished /\ Parallel /\ outcome = "returned") =>
    docs = MarkParallelized(Extend(tasks))

\* A parallel batch returned documents of two paths of which the later
\* submitted ended first.
C7_Witness ==
  /\ BatchFinished
  /\ Parallel
  /\ outcome = "returned"
  /\ \E a, b \in 1..Len(completion_order) :
       /\ a < b
       /\ completion_order[a] > completion_order[b]
       /\ tasks[completion_order[a]].docs # << >>
       /\ tasks[completion_order[b]].docs # << >>
       /\ tasks[completion_order[a]].docs # tasks[completion_order[b]].docs

\* The member of the task that wrote the file is still being handled:
\* between its write_bytes and the end of its finally block.
InHandling(owner) ==
  /\ tasks[owner.task].state = "running"
  /\ tasks[owner.task].member = owner.member
  /\ tasks[owner.task].step \in {"parse", "exists", "unlink"}

\* C8: the temporary file written for a member exists only while that
\* member is being handled, so it is gone when the handling ends, by a
\* document or by an exception; on the sequential path no temporary file
\* exists between members; and none exists when extract_documents ends.
C8_TemporaryFilesAreRemoved ==
  /\ \A p \in TmpFiles : InHandling(fs[p])
  /\ ~Parallel =>
       \A p \in TmpFiles : \E i \in Running : tasks[i].step \in {"parse", "exists", "unlink"}
  /\ BatchFinished => TmpFiles = {}

\* A batch ended with a member parsed from its temporary file, another
\* member's parser having raised, and no temporary file left.
C8_Witness ==
  /\ BatchFinished
  /\ TmpFiles = {}
  /\ \E i \in 1..Len(tasks) :
       /\ tasks[i].state = "raised"
       /\ tasks[i].error = "FileNotFoundError"
       /\ OnDisk(file_list[i])
  /\ \E j \in 1..Len(tasks) : \E k \in 1..Len(tasks[j].docs) :
       tasks[j].docs[k].kind \in {"PDF", "OCR_TEXT"} /\ tasks[j].docs[k].status = "parsed"

\* C9 as stated: a task about to parse the temporary file of its member
\* finds the file it wrote: no other task has overwritten or deleted it.
C9_TemporaryFileIsPrivate ==
  \A i \in Running :
    tasks[i].step = "parse" =>
      /\ TmpPath(file_list[i], Members(file_list[i])[tasks[i].member]) \in TmpFiles
      /\ fs[TmpPath(file_list[i], Members(file_list[i])[tasks[i].member])].task = i

\* A batch returned, for a member of one archive, the text of a member of
\* another archive.
C9_Witness ==
  /\ BatchFinished
  /\ outcome = "returned"
  /\ \E k \in 1..Len(docs) :
       /\ docs[k].source_zip # ""
       /\ docs[k].text # ""
       /\ docs[k].text # docs[k].source_zip \o ":" \o docs[k].name

----------------------------------------------------------------------------
(* The numbers of a record: Python floats (binary64).  A number is         *)
(* hi * 2^30 + lo with lo an exact rational.  Below 2^53 a sum is the      *)
(* exact sum; from 2^53 on it is rounded to the 53 significant bits a      *)
(* float keeps, ties to even, as the hardware does.  Quotients and         *)
(* decimal fractions below 2^53 are kept exact.                            *)

\* 2^30
Radix == 1073741824

\* 2^23: hi of 2^53, from where a float holds only multiples of 2
WideFrom == 8388608

Float(hi, lo) == [hi |-> hi, lo |-> lo]

\* The float of a rational of small magnitude.
F(r) == Float(0, r)

FZero == F(Zero)

\* The distance of two neighbouring floats at hi * 2^30: 1 stands for "at
\* most 1", where the model keeps sums exact.
Ulp(hi) ==
  IF hi < WideFrom THEN 1
  ELSE 2 * (CHOOSE p \in {1, 2, 4, 8, 16, 32, 64} : WideFrom * p <= hi /\ hi < WideFrom * 2 * p)

\* floor(lo / u) and what is left, for a multiple u of 1
RoundToUlp_Truncating(hi, lo, u) ==
  With(lo.n \div (lo.d * u), LAMBDA q :
    IF q * u = Radix THEN Float(hi + 1, Zero) ELSE Float(hi, Rat(q * u, 1)))

\* lo rounded to the nearest multiple of u, to the even multiple on a tie.
RoundToUlp(hi, lo, u) ==
  With(lo.n \div (lo.d * u), LAMBDA q :
  With(2 * (lo.n - q * u * lo.d), LAMBDA twice_rest :
  With(IF twice_rest < u * lo.d THEN q
       ELSE IF twice_rest > u * lo.d THEN q + 1
       ELSE IF q % 2 = 0 THEN q ELSE q + 1, LAMBDA k :
    IF k * u = Radix THEN Float(hi + 1, Zero) ELSE Float(hi, Rat(k * u, 1)))))

\* a + b of two floats
FAdd(a, b) ==
  With(Rat(a.lo.n * b.lo.d + b.lo.n * a.lo.d, a.lo.d * b.lo.d), LAMBDA s :
  With(IF s.n \div s.d >= Radix THEN 1
       ELSE IF s.n < 0 /\ a.hi + b.hi > 0 THEN -1 ELSE 0, LAMBDA carry :
  With(<< a.hi + b.hi + carry,
          IF carry = 0 THEN s ELSE Rat(s.n - carry * Radix * s.d, s.d) >>, LAMBDA sum :
    IF Ulp(sum[1]) = 1 THEN Float(sum[1], sum[2])
    ELSE RoundToUlp(sum[1], sum[2], Ulp(sum[1])))))

\* a < b
FLess(a, b) == a.hi < b.hi \/ (a.hi = b.hi /\ RLess(a.lo, b.lo))

FMax(a, b) == IF FLess(a, b) THEN b ELSE a

\* a / b of two floats below 2^30, b not zero
FDiv(a, b) ==
  F(IF b.lo.n < 0 THEN Rat(-(a.lo.n * b.lo.d), a.lo.d * (-b.lo.n))
    ELSE Rat(a.lo.n * b.lo.d, a.lo.d * b.lo.n))

\* 10^places
PowerOfTen(places) == CHOOSE p \in {1, 10, 100, 1000, 10000} : p = 10 ^ places

\* round(x, places): the nearest multiple of 10^-places, the even one on a
\* tie; a number with no fraction is its own rounding.
FRound(x, places) ==
  IF x.lo.d = 1 THEN x
  ELSE With(PowerOfTen(places), LAMBDA p :
       With(x.lo.n \div x.lo.d, LAMBDA whole :
       With((x.lo.n % x.lo.d) * p, LAMBDA scaled :
       With(scaled \div x.lo.d, LAMBDA q :
       With(2 * (scaled % x.lo.d), LAMBDA twice_rest :
         Float(x.hi, Rat(whole * p + (IF twice_rest < x.lo.d THEN q
                                      ELSE IF twice_rest > x.lo.d THEN q + 1
                                      ELSE IF q % 2 = 0 THEN q ELSE q + 1),
                         p)))))))

RECURSIVE FSum(_)
\* 0.0 + values[1] + ... + values[n], added in this order
FSum(values) ==
  IF values = << >> THEN FZero
  ELSE FAdd(FSum(SubSeq(values, 1, Len(values) - 1)), values[Len(values)])

\* The value of a string of decimal digits, by halves.
RECURSIVE DigitsValue(_)
DigitsValue(s) ==
  IF s = "" THEN 0
  ELSE IF Len(s) = 1 THEN IndexIn(s, "0123456789") - 1
  ELSE DigitsValue(SubSeq(s, 1, Len(s) \div 2)) * 10 ^ (Len(s) - Len(s) \div 2)
       + DigitsValue(SubSeq(s, Len(s) \div 2 + 1, Len(s)))

\* The float of a decimal expansion of parse_safe_float (at most nine
\* digits in all in the documents of the model).
FloatValue(x) ==
  With(DigitsValue(x.ip \o x.fp), LAMBDA n :
    F(Rat(IF x.neg THEN -n ELSE n, 10 ^ Len(x.fp))))

----------------------------------------------------------------------------
(* The canonical record builder: _aggregate_totals and the body of the     *)
(* loop of _convert_tabular_rows.  A cell is a string; None and the empty  *)
(* string, which the builder treats alike (`or None`, `if not value`),     *)
(* are both the empty string.                                              *)

None == ""

CSV_NUMERIC_FIELDS ==
  {"valor_total_nfe", "produto_qtd", "produto_valor_unit", "produto_valor_total",
   "produto_base_calculo_icms", "produto_aliquota_icms", "produto_valor_icms",
   "produto_valor_pis", "produto_valor_cofins", "produto_valor_iss"}

\* The fields _convert_tabular_rows passes through _mask_cnpj.
CNPJ_FIELDS == {"emitente_cnpj", "destinatario_cnpj"}

\* mapping.get(field)
ColumnOf(map, field) == IF field \in DOMAIN map THEN map[field] ELSE NoColumn

\* row.get(mapping.get(field, ""))
CellOf(row, map, field) == IF field \in DOMAIN map THEN row[map[field]] ELSE None

\* Mutation of _mask_cnpj: the value is kept as it is.
_mask_cnpj_Identity(value) == value

_mask_cnpj(value) ==
  IF value = None \/ Len(_digits(value)) < 14 THEN value
  ELSE SubSeq(_digits(value), 1, 8) \o "****"
       \o SubSeq(_digits(value), Len(_digits(value)) - 1, Len(_digits(value)))

\* (row.get(nfe_column) or "").strip()
NfeIdOf(row, map) == Strip(CellOf(row, map, "nfe_id"))

\* The rows of an invoice identifier, in order.
RowsOf(table, map, nfe_id) == SelectSeq(table, LAMBDA row : NfeIdOf(row, map) = nfe_id)

\* parse_safe_float(row.get(mapping.get(field, "")))
NumberOf(row, map, field) == FloatValue(parse_safe_float(CellOf(row, map, field)))

\* The first loop: per identifier, the sum of the line totals of its rows.
ItemTotals(table, map) ==
  [nfe_id \in { NfeIdOf(table[i], map) : i \in 1..Len(table) } \ {""} |->
     With(RowsOf(table, map, nfe_id), LAMBDA own :
       FSum([i \in 1..Len(own) |-> NumberOf(own[i], map, "produto_valor_total")]))]

\* The second loop: per identifier with a non-zero invoice total, the
\* greatest of 0.0 and the invoice totals of its rows.
InvoiceTotals(table, map) ==
  [nfe_id \in { NfeIdOf(table[i], map) :
                  i \in { j \in 1..Len(table) :
                            NumberOf(table[j], map, "valor_total_nfe") # FZero } } \ {""} |->
     With(RowsOf(table, map, nfe_id), LAMBDA own :
       CHOOSE m \in {FZero} \cup { NumberOf(own[i], map, "valor_total_nfe") : i \in 1..Len(own) } :
         \A i \in 1..Len(own) :
           ~FLess(m, NumberOf(own[i], map, "valor_total_nfe")) /\ ~FLess(m, FZero))]

_aggregate_totals(table, map) ==
  With(IF {"nfe_id", "produto_valor_total"} \subseteq DOMAIN map
         THEN ItemTotals(table, map) ELSE << >>, LAMBDA totals :
    IF DOMAIN totals = {} /\ {"nfe_id", "valor_total_nfe"} \subseteq DOMAIN map
      THEN InvoiceTotals(table, map) ELSE totals)

\* [column for column in columns if column not in mapping.values()]
textual_candidates(map) ==
  SelectSeq(columns, LAMBDA column : \A field \in DOMAIN map : map[field] # column)

_guess_textual_value(row, candidates) ==
  With({ i \in 1..Len(candidates) : _contains_alpha(row[candidates[i]]) }, LAMBDA textual :
    IF textual = {} THEN None ELSE row[candidates[First(textual)]])

\* The dict literal of the loop (lines 1084-1109).
PrimaryEntry(row, map) ==
  [field \in Fields |->
     IF field \in CSV_NUMERIC_FIELDS THEN NumberOf(row, map, field)
     ELSE IF field \in CNPJ_FIELDS THEN _mask_cnpj(CellOf(row, map, field))
     ELSE CellOf(row, map, field)]

\* produto_nome: the mapped cell, or a guessed text when it is missing or
\* has no letter (lines 1111-1116).
ProductNameOf(row, map, name) ==
  With(_guess_textual_value(row, textual_candidates(map)), LAMBDA fallback_name :
    IF name = None THEN fallback_name
    ELSE IF ~_contains_alpha(name) /\ fallback_name # None THEN fallback_name
    ELSE name)

\* 1e12 = 931 * 2^30 + 346361856
IsAtLeast1e12(x) == ~FLess(x, Float(931, Rat(346361856, 1)))

\* Mutation of InvoiceTotalOf: the aggregate of the invoice whenever there
\* is one.
InvoiceTotalOf_AlwaysAggregate(map, totals, nfe_id, parsed) ==
  IF nfe_id \in DOMAIN totals THEN totals[nfe_id] ELSE parsed

\* valor_total_nfe: the aggregate of the invoice when the column is the
\* identifier's own or the number is a key-sized one, and when the parsed
\* number is zero (lines 1128-1142).
InvoiceTotalOf(map, totals, nfe_id, parsed) ==
  IF nfe_id \in DOMAIN totals
       /\ (ColumnOf(map, "valor_total_nfe") = ColumnOf(map, "nfe_id") \/ IsAtLeast1e12(parsed))
    THEN totals[nfe_id]
  ELSE IF parsed = FZero /\ nfe_id \in DOMAIN totals THEN totals[nfe_id]
  ELSE parsed

\* Mutation of LineTotalOf: the row's own invoice total is not tried.
LineTotalOf_AggregateOnly(row, map, totals, nfe_id, parsed) ==
  IF parsed # FZero THEN parsed
  ELSE IF nfe_id \in DOMAIN totals THEN totals[nfe_id]
  ELSE parsed

\* produto_valor_total: when zero, the row's invoice total cell, and when
\* that is zero too, the aggregate of the invoice (lines 1144-1149).
LineTotalOf(row, map, totals, nfe_id, parsed) ==
  IF parsed # FZero THEN parsed
  ELSE IF NumberOf(row, map, "valor_total_nfe") # FZero
    THEN NumberOf(row, map, "valor_total_nfe")
  ELSE IF nfe_id \in DOMAIN totals THEN totals[nfe_id]
  ELSE parsed

\* produto_valor_unit: total / quantity when zero with a quantity (lines
\* 1151-1154).
UnitValueOf(parsed, qty, total) ==
  IF parsed = FZero /\ qty # FZero THEN FDiv(total, qty) ELSE parsed

\* One iteration of `for row in rows`: the record of the row.
EntryOf(row, map, totals) ==
  With(PrimaryEntry(row, map), LAMBDA entry :
  With(Strip(entry["nfe_id"]), LAMBDA nfe_id :
  With(LineTotalOf(row, map, totals, nfe_id, entry["produto_valor_total"]), LAMBDA line_total :
    [field \in Fields |->
       CASE field = "produto_nome" -> ProductNameOf(row, map, entry[field])
         [] field \in {"emitente_uf", "destinatario_uf"} -> Upper(entry[field])
         [] field = "nfe_id" -> nfe_id
         [] field = "valor_total_nfe" ->
              InvoiceTotalOf(map, totals, nfe_id, entry[field])
         [] field = "produto_valor_total" -> line_total
         [] field = "produto_valor_unit" ->
              UnitValueOf(entry[field], entry["produto_qtd"], line_total)
         [] OTHER -> entry[field]])))

----------------------------------------------------------------------------
(* _SemanticAnalyzer: observe and finalize.  A Counter or a dict of        *)
(* weighted totals is the sequence of its items in insertion order.        *)

\* tuple(sorted(CSV_NUMERIC_FIELDS))
NUMERIC_FIELDS ==
  << "produto_aliquota_icms", "produto_base_calculo_icms", "produto_qtd",
     "produto_valor_cofins", "produto_valor_icms", "produto_valor_iss",
     "produto_valor_pis", "produto_valor_total", "produto_valor_unit",
     "valor_total_nfe" >>

CATEGORICAL_FIELDS ==
  << "emitente_nome", "emitente_cnpj", "emitente_uf", "destinatario_nome",
     "destinatario_cnpj", "destinatario_uf", "produto_nome", "produto_cfop",
     "produto_ncm" >>

VALUE_WEIGHTED_FIELDS ==
  << "emitente_nome", "destinatario_nome", "emitente_uf", "destinatario_uf",
     "produto_nome", "produto_cfop" >>

MAX_CHART_ITEMS == 6

\* _SemanticAnalyzer.__init__
NewAnalyzer(dmap, map) ==
  [display_map |-> dmap,
   mapping |-> map,
   row_count |-> 0,
   numeric_totals |-> << >>,
   numeric_min |-> << >>,
   numeric_max |-> << >>,
   category_counts |-> [field \in Range(CATEGORICAL_FIELDS) |-> << >>],
   category_weighted_totals |-> [field \in Range(VALUE_WEIGHTED_FIELDS) |-> << >>],
   timeline_totals |-> << >>,
   date_values |-> << >>,
   sample_records |-> << >>]

\* entry.get("produto_valor_total") or entry.get("valor_total_nfe") or 0.0
WeightOf(entry) ==
  IF entry["produto_valor_total"] # FZero THEN entry["produto_valor_total"]
  ELSE entry["valor_total_nfe"]

\* defaultdict(float): totals[field] += value
AddTo(totals, field, value) ==
  [f \in DOMAIN totals \cup {field} |->
     IF f # field THEN totals[f]
     ELSE IF field \in DOMAIN totals THEN FAdd(totals[field], value)
     ELSE FAdd(FZero, value)]

\* `if current_min is None or numeric_value < current_min`
LowerTo(lowest, field, value) ==
  [f \in DOMAIN lowest \cup {field} |->
     IF f # field THEN lowest[f]
     ELSE IF field \in DOMAIN lowest /\ ~FLess(value, lowest[field]) THEN lowest[field]
     ELSE value]

\* `if current_max is None or numeric_value > current_max`
RaiseTo(highest, field, value) ==
  [f \in DOMAIN highest \cup {field} |->
     IF f # field THEN highest[f]
     ELSE IF field \in DOMAIN highest /\ ~FLess(highest[field], value) THEN highest[field]
     ELSE value]

\* The position of a label among the items, 0 when it is new.
PositionOf(items, label) ==
  IF \E i \in 1..Len(items) : items[i].label = label
    THEN CHOOSE i \in 1..Len(items) : items[i].label = label
  ELSE 0

\* counter[label] += 1
CountLabel(items, label) ==
  IF label = None THEN items
  ELSE IF PositionOf(items, label) = 0 THEN Append(items, [label |-> label, count |-> 1])
  ELSE [items EXCEPT ![PositionOf(items, label)].count = @ + 1]

\* totals[label] += weight
WeighLabel(items, label, weight) ==
  IF label = None THEN items
  ELSE IF PositionOf(items, label) = 0
    THEN Append(items, [label |-> label, value |-> FAdd(FZero, weight)])
  ELSE [items EXCEPT ![PositionOf(items, label)].value = FAdd(@, weight)]

\* The numeric loop of observe over the fields lo..hi of NUMERIC_FIELDS.
RECURSIVE ObserveNumbers(_, _, _, _)
ObserveNumbers(self, entry, lo, hi) ==
  IF lo > hi THEN self
  ELSE IF lo = hi
    THEN [self EXCEPT
            !.numeric_totals = AddTo(@, NUMERIC_FIELDS[lo], entry[NUMERIC_FIELDS[lo]]),
            !.numeric_min = LowerTo(@, NUMERIC_FIELDS[lo], entry[NUMERIC_FIELDS[lo]]),
            !.numeric_max = RaiseTo(@, NUMERIC_FIELDS[lo], entry[NUMERIC_FIELDS[lo]])]
  ELSE With(ObserveNumbers(self, entry, lo, (lo + hi) \div 2), LAMBDA half :
         ObserveNumbers(half, entry, (lo + hi) \div 2 + 1, hi))

\* date(year, month, day) raises ValueError for a day the month has not.
DaysIn(year, month) ==
  IF month \in {4, 6, 9, 11} THEN 30
  ELSE IF month # 2 THEN 31
  ELSE IF year % 4 = 0 /\ (year % 100 # 0 \/ year % 400 = 0) THEN 29
  ELSE 28

\* None
NoDate == << >>

\* The date of three strings of digits, NoDate when there is no such day.
DateOf(year, month, day) ==
  IF ~(AllDigits(year) /\ AllDigits(month) /\ AllDigits(day)) THEN NoDate
  ELSE With(<< DigitsValue(year), DigitsValue(month), DigitsValue(day) >>, LAMBDA ymd :
         IF ymd[1] >= 1 /\ ymd[2] \in 1..12 /\ ymd[3] \in 1..DaysIn(ymd[1], ymd[2])
           THEN ymd ELSE NoDate)

\* strptime with "%Y<sep>%m<sep>%d" and "%d<sep>%m<sep>%Y" on a string with
\* two-digit day and month and four-digit year (the dates of the model are
\* zero-padded); an empty separator is the compact form.
YearFirst(s, sep) ==
  IF Len(s) # 8 + 2 * Len(sep) THEN NoDate
  ELSE IF sep # "" /\ (Ch(s, 5) # sep \/ Ch(s, 8) # sep) THEN NoDate
  ELSE DateOf(SubSeq(s, 1, 4), SubSeq(s, 5 + Len(sep), 6 + Len(sep)),
              SubSeq(s, 7 + 2 * Len(sep), 8 + 2 * Len(sep)))
DayFirst(s, sep) ==
  IF Len(s) # 8 + 2 * Len(sep) THEN NoDate
  ELSE IF sep # "" /\ (Ch(s, 3) # sep \/ Ch(s, 6) # sep) THEN NoDate
  ELSE DateOf(SubSeq(s, 5 + 2 * Len(sep), 8 + 2 * Len(sep)),
              SubSeq(s, 3 + Len(sep), 4 + Len(sep)), SubSeq(s, 1, 2))

\* The first of the dates that is one.
FirstDate(dates) ==
  IF \E i \in 1..Len(dates) : dates[i] # NoDate
    THEN dates[First({ i \in 1..Len(dates) : dates[i] # NoDate })]
  ELSE NoDate

\* _parse_any_date (lines 831-855): datetime.fromisoformat, then strptime
\* on the first word with five formats, then the two compact formats on
\* the digits of a value with eight of them.  A date that fromisoformat
\* reads is the date the formats below read from its first word.
_parse_any_date(value) ==
  With(Strip(ReplaceChar(ReplaceChar(Strip(value), "T", " "), "Z", "")), LAMBDA normalized :
  With(IF normalized = "" THEN "" ELSE SplitOn(normalized, {" "})[1], LAMBDA candidate :
    IF Strip(value) = "" THEN NoDate
    ELSE FirstDate(<< YearFirst(candidate, "-"), DayFirst(candidate, "/"),
                      DayFirst(candidate, "-"), YearFirst(candidate, "/"),
                      DayFirst(candidate, "."), YearFirst(_digits(Strip(value)), ""),
                      DayFirst(_digits(Strip(value)), "") >>)))

\* str(n) padded with zeros to `width` digits
ZeroPadded(n, width) ==
  With(ToString(n), LAMBDA digits :
    SubSeq("0000", 1, Max(0, width - Len(digits))) \o digits)

\* date.isoformat()
isoformat(ymd) ==
  ZeroPadded(ymd[1], 4) \o "-" \o ZeroPadded(ymd[2], 2) \o "-" \o ZeroPadded(ymd[3], 2)

\* a < b for two dates
DateBefore(a, b) ==
  \/ a[1] < b[1]
  \/ a[1] = b[1] /\ a[2] < b[2]
  \/ a[1] = b[1] /\ a[2] = b[2] /\ a[3] < b[3]

\* The loop over DATE_FIELDS (lines 904-910): timeline_totals[iso] += weight
ObserveDate(self, entry) ==
  With(_parse_any_date(entry["data_emissao"]), LAMBDA parsed :
    IF parsed = NoDate THEN self
    ELSE [self EXCEPT
            !.date_values = Append(@, parsed),
            !.timeline_totals =
               IF \E i \in 1..Len(@) : @[i].date = parsed
                 THEN [i \in 1..Len(@) |->
                         IF @[i].date = parsed
                           THEN [@[i] EXCEPT !.value = FAdd(@, WeightOf(entry))]
                         ELSE @[i]]
               ELSE Append(@, [label |-> isoformat(parsed), date |-> parsed,
                               value |-> FAdd(FZero, WeightOf(entry))])])

observe(self, entry) ==
  With(ObserveNumbers(self, entry, 1, Len(NUMERIC_FIELDS)), LAMBDA counted :
    ObserveDate(
      [counted EXCEPT
         !.row_count = @ + 1,
         !.sample_records = IF Len(@) < 3 THEN Append(@, entry) ELSE @,
         !.category_counts =
            [field \in DOMAIN @ |-> CountLabel(@[field], entry[field])],
         !.category_weighted_totals =
            [field \in DOMAIN @ |-> WeighLabel(@[field], entry[field], WeightOf(entry))]],
      entry))

\* Mutation of DescendingOrder: of two equal keys the later comes first.
DescendingOrder_LaterFirst(keys) ==
  [p \in 1..Len(keys) |->
     CHOOSE i \in 1..Len(keys) :
       p = 1 + Cardinality({ j \in 1..Len(keys) : FLess(keys[i], keys[j]) })
             + Cardinality({ j \in (i + 1)..Len(keys) : keys[j] = keys[i] })]

\* sorted(items, key=value, reverse=True), as the positions of the items:
\* the greater key first, and of two equal keys the earlier item.
DescendingOrder(keys) ==
  [p \in 1..Len(keys) |->
     CHOOSE i \in 1..Len(keys) :
       p = 1 + Cardinality({ j \in 1..Len(keys) : FLess(keys[i], keys[j]) })
             + Cardinality({ j \in 1..(i - 1) : keys[j] = keys[i] })]

\* counter.most_common(MAX_CHART_ITEMS)
_top_categories(items) ==
  With(DescendingOrder([i \in 1..Len(items) |-> F(Rat(items[i].count, 1))]), LAMBDA order :
    [p \in 1..Min(Len(items), MAX_CHART_ITEMS) |->
       [label |-> items[order[p]].label, count |-> items[order[p]].count]])

\* sorted(totals.items(), key=value, reverse=True)[:MAX_CHART_ITEMS], each
\* value rounded to two places
_top_weighted(items) ==
  With(DescendingOrder([i \in 1..Len(items) |-> items[i].value]), LAMBDA order :
    [p \in 1..Min(Len(items), MAX_CHART_ITEMS) |->
       [label |-> items[order[p]].label, value |-> FRound(items[order[p]].value, 2)]])

\* The semantic_summary of finalize.
semantic_summary(self) ==
  [record_count |-> self.row_count,
   column_count |-> Cardinality(DOMAIN self.display_map),
   numeric_totals |->
     [field \in { f \in DOMAIN self.numeric_totals : self.numeric_totals[f] # FZero } |->
        FRound(self.numeric_totals[field], 4)],
   numeric_ranges |->
     [field \in DOMAIN self.numeric_min |->
        [min |-> FRound(self.numeric_min[field], 4),
         max |-> FRound(self.numeric_max[field], 4)]],
   unique_counts |->
     [field \in { f \in DOMAIN self.category_counts : self.category_counts[f] # << >> } |->
        Len(self.category_counts[field])],
   top_categories |->
     [field \in { f \in DOMAIN self.category_counts : self.category_counts[f] # << >> } |->
        _top_categories(self.category_counts[field])],
   value_distribution |->
     [field \in { f \in DOMAIN self.category_weighted_totals :
                    self.category_weighted_totals[f] # << >> } |->
        _top_weighted(self.category_weighted_totals[field])]]

\* A bar chart of a top list (lines 952-975).
BarChart(title, field, metric, top) ==
  [type |-> "bar", title |-> title,
   labels |-> [i \in 1..Len(top) |-> top[i].label],
   values |-> [i \in 1..Len(top) |-> top[i].value],
   field |-> field, metric |-> metric]

\* sorted(self.timeline_totals.items()): the earlier date first
ordered_timeline(self) ==
  With(self.timeline_totals, LAMBDA items :
    [p \in 1..Len(items) |->
       items[CHOOSE i \in 1..Len(items) :
               p = 1 + Cardinality({ j \in 1..Len(items) :
                                       DateBefore(items[j].date, items[i].date) })]])

\* The line chart of the timeline (lines 976-986).
LineChart(ordered) ==
  [type |-> "line", title |-> "Evolução Temporal do Valor",
   labels |-> [i \in 1..Len(ordered) |-> ordered[i].label],
   values |-> [i \in 1..Len(ordered) |-> FRound(ordered[i].value, 2)],
   metric |-> "valor_total"]

\* value_distribution.get(field) or []
TopValues(self, field) ==
  IF self.category_weighted_totals[field] = << >> THEN << >>
  ELSE _top_weighted(self.category_weighted_totals[field])

visualizations(self) ==
  (IF TopValues(self, "produto_nome") = << >> THEN << >>
   ELSE << BarChart("Top Produtos por Valor", "produto_nome", "produto_valor_total",
                    TopValues(self, "produto_nome")) >>)
  \o (IF TopValues(self, "emitente_nome") = << >> THEN << >>
      ELSE << BarChart("Top Emitentes por Valor", "emitente_nome", "valor_total_nfe",
                       TopValues(self, "emitente_nome")) >>)
  \o (IF Len(self.timeline_totals) < 2 THEN << >>
      ELSE << LineChart(ordered_timeline(self)) >>)

\* k * a for a small whole k
FScale(a, k) ==
  With(Rat(a.lo.n * k, a.lo.d), LAMBDA lo :
  With(IF lo.n >= 0 THEN (lo.n \div lo.d) \div Radix ELSE 0, LAMBDA carry :
    Float(a.hi * k + carry,
          IF carry = 0 THEN lo ELSE Rat(lo.n - carry * Radix * lo.d, lo.d))))

\* `value / total >= n/d` for a total that is not zero: the quotient is
\* compared through d * value and n * total.
ShareAtLeast(value, total, n, d) ==
  IF FLess(FZero, total) THEN ~FLess(FScale(value, d), FScale(total, n))
  ELSE ~FLess(FScale(total, n), FScale(value, d))

\* The concentration insight of a top list (lines 989-1006): the leader's
\* listed value over the sum of the listed values.
ConcentrationInsight(kind, top, n, d) ==
  With(FSum([i \in 1..Len(top) |-> top[i].value]), LAMBDA total :
    IF top # << >> /\ total # FZero /\ ShareAtLeast(top[1].value, total, n, d)
      THEN << [kind |-> kind, label |-> top[1].label] >>
    ELSE << >>)

\* a - b of two floats below 2^30
FSub(a, b) == F(RSub(a.lo, b.lo))

\* The trend insight (lines 1007-1019): (last - first) / first against
\* 0.15 and -0.15, for a first value that is not zero.
TrendInsight(ordered) ==
  IF Len(ordered) < 2 \/ ordered[1].value = FZero THEN << >>
  ELSE With(FDiv(FSub(ordered[Len(ordered)].value, ordered[1].value), ordered[1].value),
            LAMBDA variation :
         IF ~FLess(variation, F(Rat(15, 100)))
           THEN << [kind |-> "alta", start |-> ordered[1].label,
                    end |-> ordered[Len(ordered)].label] >>
         ELSE IF ~FLess(F(Rat(-15, 100)), variation)
           THEN << [kind |-> "queda", start |-> ordered[1].label,
                    end |-> ordered[Len(ordered)].label] >>
         ELSE << >>)

\* The insights of finalize: which sentence is emitted and what it names
\* (the percentage printed in it is left out).
insights(self) ==
  ConcentrationInsight("emitente", TopValues(self, "emitente_nome"), 1, 2)
  \o ConcentrationInsight("produto", TopValues(self, "produto_nome"), 2, 5)
  \o TrendInsight(ordered_timeline(self))

\* min(self.date_values) and max(self.date_values); None is << >>
temporal_coverage(self) ==
  IF self.date_values = << >> THEN << >>
  ELSE With(Range(self.date_values), LAMBDA dates :
         << [start |-> isoformat(CHOOSE a \in dates : \A b \in dates : ~DateBefore(b, a)),
             end |-> isoformat(CHOOSE a \in dates : \A b \in dates : ~DateBefore(a, b))] >>)

finalize(self) ==
  [semantic_summary |-> semantic_summary(self),
   visualizations |-> visualizations(self),
   insights |-> insights(self),
   processing_stats |-> [mode |-> "incremental", rows_processed |-> self.row_count,
                         columns_detected |-> Cardinality(DOMAIN self.display_map),
                         parallelized |-> FALSE],
   temporal_coverage |-> temporal_coverage(self),
   sample_records |-> self.sample_records]

----------------------------------------------------------------------------
(* An analyzer fed record after record and finalized at any point.  The    *)
(* records arrive grouped by product: a record names the product of the    *)
(* record before it or a product not seen yet.  The analyzer never looks   *)
(* into a label, so the products of a run are, in the order of PRODUCTS,   *)
(* in the order in which they were first observed.                         *)

\* records observed by one analyzer
MaxEntries == 7

PRODUCTS ==
  << "Produto A", "Produto B", "Produto C", "Produto D", "Produto E", "Produto F",
     "Produto G", "Produto H" >>

\* The line totals of the records: 1.0 and 1.004, and for the first product
\* also 2^53.
WEIGHTS == {F(One), F(Rat(1004, 1000))}
WIDE_WEIGHT == Float(WideFrom, Zero)

\* A record that names a product and carries a line total.
ProductEntry(label, weight) ==
  [field \in Fields |->
     IF field = "produto_nome" THEN label
     ELSE IF field = "produto_valor_total" THEN weight
     ELSE IF field \in CSV_NUMERIC_FIELDS THEN FZero
     ELSE None]

\* The products seen so far.
SeenProducts == Len(analyzer.category_counts["produto_nome"])

\* The records the run may observe next.
NextEntries ==
  { ProductEntry(PRODUCTS[k], weight) :
      k \in { n \in {SeenProducts, SeenProducts + 1} : n \in 1..Len(PRODUCTS) },
      weight \in WEIGHTS }
  \cup (IF SeenProducts <= 1 THEN {ProductEntry(PRODUCTS[1], WIDE_WEIGHT)} ELSE {})

Observe ==
  /\ pc = "observe"
  /\ analyzer.row_count < MaxEntries
  /\ \E entry \in NextEntries : analyzer' = observe(analyzer, entry)
  /\ UNCHANGED << pc, totals_by_nfe, result, meta, mapVars, csvVars, batchVars, outVars, restVars >>

Finalize ==
  /\ pc = "observe"
  /\ meta' = finalize(analyzer)
  /\ pc' = "finalized"
  /\ UNCHANGED << totals_by_nfe, result, analyzer, mapVars, csvVars, batchVars, outVars, restVars >>

InitAnalyzer ==
  /\ pc = "observe"
  /\ analyzer = NewAnalyzer([field \in Fields |-> field], [field \in Fields |-> field])
  /\ totals_by_nfe = << >> /\ result = << >> /\ meta = << >>
  /\ MapIdle /\ CsvIdle /\ BatchIdle /\ OutIdle /\ RestIdle

NextAnalyzer == Observe \/ Finalize

SpecAnalyzer == InitAnalyzer /\ [][NextAnalyzer]_vars

\* What the claims on reordering compare: the totals, ranges and record
\* count of the summary finalize gives.
TotalsOf(self) ==
  With(semantic_summary(self), LAMBDA summary :
    [numeric_totals |-> summary.numeric_totals,
     numeric_ranges |-> summary.numeric_ranges,
     record_count |-> summary.record_count])

\* The pairs of records the run may observe next in either order.
SwapPairs ==
  { pair \in NextEntries \X NextEntries : pair[1]["produto_nome"] = pair[2]["produto_nome"] }

\* The summary after the records observed so far and then a and b.
AfterBoth(a, b) == TotalsOf(observe(observe(analyzer, a), b))

\* C12: for any sequence of records and any permutation of it, observing in
\* either order and finalizing gives the same per-field totals, minima and
\* maxima and the same record_count.  Stated on two neighbours of the
\* sequence: whatever was observed before, observing a then b leaves the same
\* totals, ranges and count as observing b then a (a permutation is a chain
\* of such swaps, and the records after the pair see the same analyzer only
\* if the pair left the same sums).
C12_SameSummaryInEitherOrder ==
  (pc = "observe" /\ analyzer.row_count + 2 <= MaxEntries) =>
    \A pair \in SwapPairs : AfterBoth(pair[1], pair[2]) = AfterBoth(pair[2], pair[1])

\* The part of C12 that does not depend on the sums: the minima, the maxima
\* and the record count are the same in either order.
RangesSameInEitherOrder ==
  (pc = "observe" /\ analyzer.row_count + 2 <= MaxEntries) =>
    \A pair \in SwapPairs :
      /\ AfterBoth(pair[1], pair[2]).numeric_ranges = AfterBoth(pair[2], pair[1]).numeric_ranges
      /\ AfterBoth(pair[1], pair[2]).record_count = AfterBoth(pair[2], pair[1]).record_count

\* Three records of 1.0, 1.0 and 2^53 finalized with a line total of 2^53 + 2;
\* observed as 2^53, 1.0, 1.0 the same records total 2^53.
C12_Witness ==
  /\ pc = "finalized"
  /\ analyzer.row_count = 3
  /\ [i \in 1..3 |-> analyzer.sample_records[i]["produto_valor_total"]]
       = << F(One), F(One), WIDE_WEIGHT >>
  /\ meta.semantic_summary.numeric_totals["produto_valor_total"] = Float(WideFrom, Rat(2, 1))
  /\ FAdd(FAdd(WIDE_WEIGHT, F(One)), F(One)) = WIDE_WEIGHT

\* The top lists of a finalized summary, each with the items it was taken from.
CountLists ==
  { [top |-> meta.semantic_summary.top_categories[field],
     items |-> analyzer.category_counts[field]] :
      field \in DOMAIN meta.semantic_summary.top_categories }
ValueLists ==
  { [top |-> meta.semantic_summary.value_distribution[field],
     items |-> analyzer.category_weighted_totals[field]] :
      field \in DOMAIN meta.semantic_summary.value_distribution }

\* The total accumulated for a label, before it is rounded for the list.
AccumulatedOf(items, label) == items[PositionOf(items, label)].value

\* label a was first observed before label b
ObservedBefore(items, a, b) == PositionOf(items, a) < PositionOf(items, b)

\* A list by count: at most 6 entries, the greater count first and of equal
\* counts the label first observed; no label left out has a greater count.
CountListInOrder(list) ==
  /\ Len(list.top) <= 6
  /\ Len(list.top) = Min(Len(list.items), 6)
  /\ \A i \in 1..Len(list.top) :
       /\ PositionOf(list.items, list.top[i].label) # 0
       /\ list.top[i].count = list.items[PositionOf(list.items, list.top[i].label)].count
  /\ \A i, j \in 1..Len(list.top) : i < j =>
       \/ list.top[i].count > list.top[j].count
       \/ /\ list.top[i].count = list.top[j].count
          /\ ObservedBefore(list.items, list.top[i].label, list.top[j].label)
  /\ \A k \in 1..Len(list.items) : \A i \in 1..Len(list.top) :
       list.items[k].count > list.top[i].count =>
         \E j \in 1..Len(list.top) : list.top[j].label = list.items[k].label

\* C13 as stated: every top list has at most 6 entries, is in descending
\* order of the listed value, and lists labels of equal listed value in the
\* order in which they were first observed.
C13_EqualListedValuesInObservedOrder ==
  pc = "finalized" =>
    /\ \A list \in CountLists : CountListInOrder(list)
    /\ \A list \in ValueLists :
         /\ Len(list.top) <= 6
         /\ \A i, j \in 1..Len(list.top) : i < j =>
              \/ FLess(list.top[j].value, list.top[i].value)
              \/ /\ list.top[i].value = list.top[j].value
                 /\ ObservedBefore(list.items, list.top[i].label, list.top[j].label)

\* C13 amended: every top list has at most 6 entries and is in descending
\* order of the listed value; a list by count orders equal counts by first
\* observation; a list by weighted total is ordered by the accumulated total,
\* equal accumulated totals by first observation, and lists each total
\* rounded to two places, so that two labels whose totals differ by less than
\* the rounding can carry the same listed value in either order.
C13_TopListsInOrder ==
  pc = "finalized" =>
    /\ \A list \in CountLists : CountListInOrder(list)
    /\ \A list \in ValueLists :
         /\ Len(list.top) <= 6
         /\ Len(list.top) = Min(Len(list.items), 6)
         /\ \A i \in 1..Len(list.top) :
              /\ PositionOf(list.items, list.top[i].label) # 0
              /\ list.top[i].value = FRound(AccumulatedOf(list.items, list.top[i].label), 2)
         /\ \A i, j \in 1..Len(list.top) : i < j =>
              /\ ~FLess(list.top[i].value, list.top[j].value)
              /\ \/ FLess(AccumulatedOf(list.items, list.top[j].label),
                          AccumulatedOf(list.items, list.top[i].label))
                 \/ /\ AccumulatedOf(list.items, list.top[i].label)
                         = AccumulatedOf(list.items, list.top[j].label)
                    /\ ObservedBefore(list.items, list.top[i].label, list.top[j].label)
         /\ \A k \in 1..Len(list.items) : \A i \in 1..Len(list.top) :
              FLess(AccumulatedOf(list.items, list.top[i].label), list.items[k].value) =>
                \E j \in 1..Len(list.top) : list.top[j].label = list.items[k].label

\* Seven products were observed and six are listed; two of the listed have
\* the same accumulated total, and two others the same listed value with the
\* later observed first.
C13_Witness ==
  /\ pc = "finalized"
  /\ SeenProducts = 7
  /\ \E list \in ValueLists :
       /\ Len(list.top) = 6
       /\ \E i, j \in 1..6 :
            /\ i < j
            /\ AccumulatedOf(list.items, list.top[i].label)
                 = AccumulatedOf(list.items, list.top[j].label)
       /\ \E i, j \in 1..6 :
            /\ i < j
            /\ list.top[i].value = list.top[j].value
            /\ ObservedBefore(list.items, list.top[j].label, list.top[i].label)

----------------------------------------------------------------------------
(* The pipeline: AgentGraph.invoke (graph.py) and                          *)
(* AuditWorker.process_message (worker.py).  The status repository is the  *)
(* log of the calls made to it and the row of the task they write.  A step *)
(* that fails raises an Exception; the calls to the status repository      *)
(* themselves do not fail.                                                 *)

\* The variables of the extraction, which the pipeline model leaves alone.
extractionVars ==
  << mapVars, csvVars, batchVars, docs, rowVars, textVars, readVars, sniffVars, callVars >>
dataVars == << extractionVars, statusVars >>

PHASES == << "ocr", "auditor", "classifier", "cross_validator", "intelligence", "accountant" >>

\* Mutation of _initial_agent_state: the task starts with no agent entry.
_initial_agent_state_Empty == << >>

\* endpoints._initial_agent_state: every phase of AgentPhase is 'pending'
\* when the upload endpoint stores the task.
_initial_agent_state == [k \in Range(PHASES) |-> "pending"]

\* Task(status="PENDING", progress=0) with its agent_status
\* (endpoints.py, lines 259-276): the status of each agent and the
\* percentage.
NewTask == [agent_status |-> _initial_agent_state, progress |-> 0]

\* sum(1 for payload in agent_state.values() if payload.get("status") == "completed")
Completed(agent_state) ==
  Cardinality({ k \in DOMAIN agent_state : agent_state[k] = "completed" })

\* int((completed / total_agents) * 100) if total_agents else 0
Percentage(completed, total_agents) ==
  IF total_agents # 0 THEN (completed * 100) \div total_agents ELSE 0

\* SQLAlchemyStatusRepository.update_agent_status on the row of the task:
\* nothing when there is no row; otherwise the status of the agent is
\* stored in lower case and the percentage is computed over the agents
\* the row holds.
update_agent_status(row, agent, status) ==
  IF row = << >> THEN row
  ELSE With((agent :> Lower(status)) @@ row[1].agent_status, LAMBDA agent_state :
         << [agent_status |-> agent_state,
             progress |-> Percentage(Completed(agent_state), Cardinality(DOMAIN agent_state))] >>)

\* update_task_status(task_id, "FAILURE", detail=...) on the agents of the
\* row: with a detail that is not empty, an agent that is 'running'
\* becomes 'error'.
FailRunningAgents(row, detail) ==
  IF row = << >> \/ detail = "" THEN row
  ELSE << [row[1] EXCEPT !.agent_status =
             [k \in DOMAIN @ |-> IF @[k] = "running" THEN "error" ELSE @[k]]] >>

\* str(error) of the exceptions a step may raise
ERRORS == {"", "falha"}

TASK_ID == "task-1"

\* GraphState(task_id=task_id, source_files=file_paths)
NewGraphState == [task_id |-> TASK_ID, audit_report |-> FALSE, errors |-> << >>]

\* StatusCallback.on_start
on_start(updates, phase) == Append(updates, [phase |-> phase, status |-> "running"])

\* StatusCallback.on_end
on_end(updates, phase) == Append(updates, [phase |-> phase, status |-> "completed"])

\* Mutation of on_error: the failure of a phase is not reported.
on_error_Silent(updates, phase, text) == updates

\* StatusCallback.on_error: f"error:{error}"
on_error(updates, phase, text) == Append(updates, [phase |-> phase, status |-> "error:" \o text])

\* update_task_status(task_id, status): detail is None
StatusUpdate(status) == [task_id |-> TASK_ID, status |-> status, detail |-> << >>]

\* Mutation of FailureUpdate: the failure is recorded without the error text.
FailureUpdate_NoDetail(text) == [task_id |-> TASK_ID, status |-> "FAILURE", detail |-> << >>]

\* update_task_status(task_id, "FAILURE", detail=str(error)); the detail is
\* << >> when None and << text >> otherwise, so that an exception of empty
\* text is told from no detail.
FailureUpdate(text) == [task_id |-> TASK_ID, status |-> "FAILURE", detail |-> << text >>]

\* The node functions: _auditor_node stores the report run_audit returns;
\* the others keep what the state holds.
NodeResult(current, phase) ==
  IF phase = "auditor" THEN [current EXCEPT !.audit_report = TRUE] ELSE current

\* An exception leaves AgentGraph.invoke: out of the call when invoke was
\* called directly, into the except clause of process_message otherwise.
RaisedFromInvoke(text) ==
  /\ raised_error' = << text >>
  /\ IF entry_point = "invoke"
       THEN pc' = "done" /\ outcome' = "raised"
       ELSE pc' = "except" /\ UNCHANGED outcome

\* AgentGraph.invoke returns its state.
ReturnedFromInvoke ==
  IF entry_point = "invoke"
    THEN pc' = "done" /\ outcome' = "returned"
    ELSE pc' = "check_report" /\ UNCHANGED outcome

\* self.status_repository.update_task_status(task_id, "RUNNING")
UpdateRunning ==
  /\ pc = "update_running"
  /\ task_updates' = Append(task_updates, StatusUpdate("RUNNING"))
  /\ pc' = "load_files"
  /\ UNCHANGED << dataVars, entry_point, graph_state, node, agent_updates, saved, raised_error, outcome >>

\* file_paths = self.storage.load_files(file_references), then GraphState(...)
LoadFiles ==
  /\ pc = "load_files"
  /\ \/ /\ graph_state' = NewGraphState
        /\ pc' = IF entry_point = "injected" THEN "injected_invoke" ELSE "on_start"
        /\ node' = IF entry_point = "injected" THEN 0 ELSE 1
        /\ UNCHANGED raised_error
     \/ /\ \E text \in ERRORS : raised_error' = << text >>
        /\ pc' = "except"
        /\ UNCHANGED << graph_state, node >>
  /\ UNCHANGED << dataVars, entry_point, agent_updates, task_updates, saved, outcome >>

\* _run_node: self.callback.on_start(state.task_id, phase)
OnStart ==
  /\ pc = "on_start"
  /\ agent_updates' = on_start(agent_updates, PHASES[node])
  /\ task_row' = update_agent_status(task_row, PHASES[node], "running")
  /\ pc' = "func"
  /\ UNCHANGED << extractionVars, entry_point, graph_state, node, task_updates, saved, raised_error, outcome >>

\* _run_node: new_state = func(state), which returns or raises
Func ==
  /\ pc = "func"
  /\ \/ /\ graph_state' = NodeResult(graph_state, PHASES[node])
        /\ pc' = "on_end"
        /\ UNCHANGED raised_error
     \/ /\ \E text \in ERRORS : raised_error' = << text >>
        /\ pc' = "on_error"
        /\ UNCHANGED graph_state
  /\ UNCHANGED << dataVars, entry_point, node, agent_updates, task_updates, saved, outcome >>

\* _run_node, except clause: state.errors.append(str(error)), on_error, raise
OnError ==
  /\ pc = "on_error"
  /\ graph_state' = [graph_state EXCEPT !.errors = Append(@, raised_error[1])]
  /\ agent_updates' = on_error(agent_updates, PHASES[node], raised_error[1])
  /\ task_row' = update_agent_status(task_row, PHASES[node], "error:" \o raised_error[1])
  /\ RaisedFromInvoke(raised_error[1])
  /\ UNCHANGED << extractionVars, entry_point, node, task_updates, saved >>

\* _run_node, else clause: on_end and return; invoke goes on to the next
\* phase or returns after the last
OnEnd ==
  /\ pc = "on_end"
  /\ agent_updates' = on_end(agent_updates, PHASES[node])
  /\ task_row' = update_agent_status(task_row, PHASES[node], "completed")
  /\ IF node < Len(PHASES)
       THEN node' = node + 1 /\ pc' = "on_start" /\ UNCHANGED outcome
       ELSE UNCHANGED node /\ ReturnedFromInvoke
  /\ UNCHANGED << extractionVars, entry_point, graph_state, task_updates, saved, raised_error >>

\* result = self.graph.invoke(state) of a graph passed to AuditWorker: it
\* returns a state with or without a report, or raises
InjectedInvoke ==
  /\ pc = "injected_invoke"
  /\ \/ /\ \E report \in BOOLEAN : graph_state' = [graph_state EXCEPT !.audit_report = report]
        /\ pc' = "check_report"
        /\ UNCHANGED raised_error
     \/ /\ \E text \in ERRORS : raised_error' = << text >>
        /\ pc' = "except"
        /\ UNCHANGED graph_state
  /\ UNCHANGED << dataVars, entry_point, node, agent_updates, task_updates, saved, outcome >>

\* if not result.audit_report: raise RuntimeError(...)
CheckReport ==
  /\ pc = "check_report"
  /\ IF graph_state.audit_report
       THEN pc' = "save_report" /\ UNCHANGED raised_error
       ELSE pc' = "except" /\ raised_error' = << "Pipeline não gerou relatório de auditoria" >>
  /\ UNCHANGED << dataVars, entry_point, graph_state, node, agent_updates, task_updates, saved, outcome >>

\* self.report_repository.save_report(task_id, result.audit_report)
SaveReport ==
  /\ pc = "save_report"
  /\ \/ /\ saved' = saved \cup {TASK_ID}
        /\ pc' = "update_success"
        /\ UNCHANGED raised_error
     \/ /\ \E text \in ERRORS : raised_error' = << text >>
        /\ pc' = "except"
        /\ UNCHANGED saved
  /\ UNCHANGED << dataVars, entry_point, graph_state, node, agent_updates, task_updates, outcome >>

\* self.status_repository.update_task_status(task_id, "SUCCESS")
UpdateSuccess ==
  /\ pc = "update_success"
  /\ task_updates' = Append(task_updates, StatusUpdate("SUCCESS"))
  /\ pc' = "done"
  /\ outcome' = "returned"
  /\ UNCHANGED << dataVars, entry_point, graph_state, node, agent_updates, saved, raised_error >>

\* except Exception as error: update_task_status(task_id, "FAILURE", ...); raise
Except ==
  /\ pc = "except"
  /\ task_updates' = Append(task_updates, FailureUpdate(raised_error[1]))
  /\ task_row' = FailRunningAgents(task_row, raised_error[1])
  /\ pc' = "done"
  /\ outcome' = "raised"
  /\ UNCHANGED << extractionVars, entry_point, graph_state, node, agent_updates, saved, raised_error >>

InitPipeline ==
  /\ entry_point \in {"invoke", "process_message", "injected"}
  /\ pc = IF entry_point = "invoke" THEN "on_start" ELSE "update_running"
  /\ graph_state = IF entry_point = "invoke" THEN NewGraphState ELSE << >>
  /\ node = IF entry_point = "invoke" THEN 1 ELSE 0
  /\ agent_updates = << >> /\ task_updates = << >> /\ saved = {} /\ raised_error = << >>
  /\ task_row \in {<< >>, << NewTask >>}
  /\ MapIdle /\ CsvIdle /\ BatchIdle /\ OutIdle /\ RowIdle /\ TextIdle
  /\ ReadIdle /\ SniffIdle /\ CallIdle

NextPipeline ==
  \/ UpdateRunning \/ LoadFiles \/ OnStart \/ Func \/ OnError \/ OnEnd
  \/ InjectedInvoke \/ CheckReport \/ SaveReport \/ UpdateSuccess \/ Except

SpecPipeline == InitPipeline /\ [][NextPipeline]_vars

\* The run goes through AgentGraph.invoke (and not through a graph passed in).
UsesAgentGraph == entry_point \in {"invoke", "process_message"}

\* The statuses reported for one phase, in order.
UpdatesOf(phase) == SelectSeq(agent_updates, LAMBDA update : update.phase = phase)

IsErrorStatus(status) == Len(status) >= 6 /\ SubSeq(status, 1, 6) = "error:"

\* AgentGraph.invoke has returned.
InvokeReturned ==
  \/ entry_point = "invoke" /\ outcome = "returned"
  \/ entry_point = "process_message"
       /\ pc \in {"check_report", "save_report", "update_success"}
  \/ entry_point = "process_message" /\ pc \in {"done", "except"} /\ node = Len(PHASES)
       /\ Len(agent_updates) = 2 * Len(PHASES)
       /\ ~IsErrorStatus(agent_updates[Len(agent_updates)].status)

\* C18: invoke runs the six phases in the order of PHASES: the k-th pair of
\* reports is about the k-th phase, 'running' first and then 'completed' or
\* 'error:...'; a phase is reported 'running' only when every phase before
\* it was reported 'completed'; after invoke returned all six phases are
\* 'completed'; when a phase raises, its 'error:' report carries the text of
\* the exception, the exception is on its way out of invoke and no report
\* follows it.
C18_PhasesReportedInOrder ==
  UsesAgentGraph =>
    /\ Len(agent_updates) <= 2 * Len(PHASES)
    /\ \A i \in 1..Len(agent_updates) :
         /\ agent_updates[i].phase = PHASES[(i + 1) \div 2]
         /\ i % 2 = 1 => agent_updates[i].status = "running"
         /\ i % 2 = 0 =>
              \/ agent_updates[i].status = "completed"
              \/ /\ i = Len(agent_updates)
                 /\ raised_error # << >>
                 /\ agent_updates[i].status = "error:" \o raised_error[1]
                 /\ pc \in {"done", "except"}
                 /\ entry_point = "invoke" => outcome = "raised"
                 /\ outcome # "returned"
         /\ agent_updates[i].status = "running" =>
              \A k \in 1..((i + 1) \div 2 - 1) :
                UpdatesOf(PHASES[k]) = on_end(on_start(<< >>, PHASES[k]), PHASES[k])
    /\ InvokeReturned =>
         \A k \in 1..Len(PHASES) :
           UpdatesOf(PHASES[k]) = on_end(on_start(<< >>, PHASES[k]), PHASES[k])
    /\ (pc \in {"done", "except"} /\ raised_error # << >> /\ ~InvokeReturned
          /\ agent_updates # << >>) =>
         agent_updates[Len(agent_updates)]
           = [phase |-> PHASES[node], status |-> "error:" \o raised_error[1]]

\* The fourth phase raised after three phases completed: it is reported
\* 'running' and then 'error:falha', and invoke ended with the exception.
C18_Witness ==
  /\ entry_point = "invoke"
  /\ outcome = "raised"
  /\ Len(agent_updates) = 8
  /\ agent_updates[8] = [phase |-> "cross_validator", status |-> "error:falha"]
  /\ graph_state.errors = << "falha" >>

\* A run of invoke that returned with all six phases completed.
CompletedRun ==
  /\ entry_point = "invoke"
  /\ outcome = "returned"
  /\ Len(agent_updates) = 12
  /\ graph_state.audit_report

\* The statuses recorded for the task, in order.
TaskStatuses == [i \in 1..Len(task_updates) |-> task_updates[i].status]

\* C19: for a message handled by process_message the first status recorded
\* is RUNNING; when the call has ended the last is SUCCESS or FAILURE;
\* SUCCESS is recorded only with the report saved under the task id, and the
\* call then returns; when a step raised (file loading, pipeline, missing
\* report, report saving) the last status is FAILURE with the text of the
\* exception and the call ends with that exception.
C19_TaskStatusBracketsTheRun ==
  entry_point \in {"process_message", "injected"} =>
    /\ task_updates # << >> => task_updates[1] = StatusUpdate("RUNNING")
    /\ pc # "update_running" => task_updates # << >>
    /\ \A i \in 2..Len(task_updates) : task_updates[i].status # "RUNNING"
    /\ \A i \in 1..Len(task_updates) :
         task_updates[i].status = "SUCCESS" =>
           /\ TASK_ID \in saved
           /\ i = Len(task_updates)
           /\ outcome = "returned"
    /\ pc = "done" =>
         /\ outcome \in {"returned", "raised"}
         /\ TaskStatuses[Len(task_updates)] \in {"SUCCESS", "FAILURE"}
         /\ outcome = "returned" <=>
              (raised_error = << >> /\ TaskStatuses = << "RUNNING", "SUCCESS" >>)
         /\ outcome = "raised" <=>
              /\ raised_error # << >>
              /\ TaskStatuses = << "RUNNING", "FAILURE" >>
              /\ task_updates[2].detail = raised_error
    /\ pc = "except" => raised_error # << >>

\* The report could not be saved: the run recorded RUNNING and then FAILURE
\* with the text of the exception, all six phases completed, nothing saved.
C19_Witness ==
  /\ entry_point = "process_message"
  /\ pc = "done"
  /\ outcome = "raised"
  /\ Len(agent_updates) = 12
  /\ saved = {}
  /\ task_updates = << StatusUpdate("RUNNING"), FailureUpdate("falha") >>

\* A graph passed to the worker returned no report: FAILURE with the text
\* of the RuntimeError.
MissingReportRun ==
  /\ entry_point = "injected"
  /\ pc = "done"
  /\ task_updates[Len(task_updates)]
       = FailureUpdate("Pipeline não gerou relatório de auditoria")

\* A message whose run succeeded.
SuccessfulRun ==
  /\ entry_point = "process_message"
  /\ outcome = "returned"
  /\ TaskStatuses = << "RUNNING", "SUCCESS" >>
  /\ saved = {TASK_ID}

----------------------------------------------------------------------------
(* _convert_tabular_rows on a table: mapping inference (the three passes   *)
(* above), the aggregate per invoice, one record per row, the metadata.    *)

\* rows of a table handed to _convert_tabular_rows
MaxRecords == 2

\* The tables: a header and the rows to draw from.  No table has a date
\* column (see the analyzer).
TABLES ==
  << [header |-> << "nfe_id", "valor_total_nfe", "produto_nome", "emitente_uf" >>,
      cells |-> { << "NFE123", "1500", "Produto A", "sp" >>,
                  << " NFE123 ", "", "Produto B", "SP" >>,
                  << "NFE124", "2000", "77", "" >> }],
     [header |-> << "Chave NF", "Valor NF ICMS" >>,
      cells |-> { << "N1", "10" >>, << "N1", "20" >>, << "N1", "" >>, << "", "30" >> }],
     [header |-> << "CNPJ Emitente", "Produto", "Quantidade", "Valor Total" >>,
      cells |-> { << "12.345.678/0001-90", "Caneta", "n/d", "10,00" >>,
                  << "12345678000190", "Lapis", "2", "" >>,
                  << "123", "77", "4", "10,50" >> }],
     [header |-> << "Chave NF", "Quantidade" >>,
      cells |-> { << "NF-5", "2" >>, << "35", "4" >>, << "35", "" >> }] >>

\* The lists of up to n rows of a set, the empty list among them.
ListsUpTo(S, n) == UNION { [1..k -> S] : k \in 0..n }

\* dict(zip(fieldnames, cells))
RowOf(fieldnames, cells) ==
  [column \in Range(fieldnames) |->
     cells[CHOOSE i \in 1..Len(fieldnames) : fieldnames[i] = column]]

\* source_name: the name of the document the rows come from.
SourceName == IF extension = "" THEN "x.csv" ELSE "doc." \o extension

\* The early return for no rows (lines 1057-1071).
EmptyTableMeta ==
  [source |-> SourceName,
   row_count |-> 0,
   column_mapping |-> << >>,
   has_structured_table |-> FALSE,
   has_text_only |-> FALSE,
   analysis_scope |-> "full_document",
   processing_stats |-> [mode |-> "incremental", rows_processed |-> 0,
                         columns_detected |-> Cardinality(DOMAIN display_map),
                         parallelized |-> FALSE]]

\* The metadata of a converted table before the analyzer's part is merged
\* in (lines 1159-1172).
TableMeta ==
  [source |-> SourceName,
   row_count |-> Len(rows),
   column_mapping |-> [field \in DOMAIN mapping |-> display_map[mapping[field]]],
   detection_confidence |-> [field \in DOMAIN diagnostics |-> diagnostics[field].score],
   unused_columns |->
     [i \in 1..Len(textual_candidates(mapping)) |-> display_map[textual_candidates(mapping)[i]]],
   inferred_totals |-> totals_by_nfe,
   matched_columns |-> [field \in DOMAIN diagnostics |-> diagnostics[field].column],
   missing_fields |-> SelectSeq(CSV_FIELD_NAMES, LAMBDA field : field \notin DOMAIN mapping),
   has_structured_table |-> TRUE,
   has_text_only |-> FALSE,
   analysis_scope |-> "full_document"]

\* Mutation of NextRow: the rows are taken from the last to the first.
NextRow_FromTheEnd(table, built) == table[Len(table) - Len(built)]

\* `for row in rows`: the row the loop is at when `built` records exist.
NextRow(table, built) == table[Len(built) + 1]

\* `if not rows: return [], {...}`, else on to _infer_column_mapping
EnterConvert ==
  /\ pc = "convert"
  /\ IF rows = << >>
       THEN /\ result' = << >>
            /\ meta' = EmptyTableMeta
            /\ pc' = "converted"
       ELSE /\ pc' = "infer"
            /\ UNCHANGED << result, meta >>
  /\ UNCHANGED << mapVars, csvVars, batchVars, outVars, totals_by_nfe, analyzer, restVars >>

\* totals_by_nfe = _aggregate_totals(rows, mapping); the analyzer and the
\* empty result (lines 1074-1081)
AggregateTotals ==
  /\ pc = "mapped"
  /\ totals_by_nfe' = _aggregate_totals(rows, mapping)
  /\ analyzer' = NewAnalyzer(display_map, mapping)
  /\ result' = << >>
  /\ pc' = "rows"
  /\ UNCHANGED << mapVars, csvVars, batchVars, outVars, meta, restVars >>

\* One iteration of `for row in rows` (lines 1083-1157)
ConvertRow ==
  /\ pc = "rows"
  /\ Len(result) < Len(rows)
  /\ \E entry \in {EntryOf(NextRow(rows, result), mapping, totals_by_nfe)} :
       /\ analyzer' = observe(analyzer, entry)
       /\ result' = Append(result, entry)
  /\ UNCHANGED << pc, mapVars, csvVars, batchVars, outVars, totals_by_nfe, meta, restVars >>

\* The metadata, analyzer.finalize() and the return (lines 1159-1178)
ReturnRows ==
  /\ pc = "rows"
  /\ Len(result) = Len(rows)
  /\ \E semantic_meta \in {finalize(analyzer)} :
       \* `if not semantic_meta.get("temporal_coverage"): semantic_meta.pop(...)`
       meta' = [key \in (DOMAIN semantic_meta \ (IF semantic_meta.temporal_coverage = << >>
                                                    THEN {"temporal_coverage"} ELSE {}))
                  |-> semantic_meta[key]] @@ TableMeta
  /\ pc' = "converted"
  /\ UNCHANGED << mapVars, csvVars, batchVars, outVars, totals_by_nfe, result, analyzer,
                  restVars >>

InitRows ==
  /\ pc = "convert"
  /\ \E t \in 1..Len(TABLES) :
       \E s \in {_sanitize_fieldnames(TABLES[t].header)} :
         /\ columns = KeysInOrder(s.sanitized, << >>)
         /\ display_map = s.display_map
         /\ \E cells \in ListsUpTo(TABLES[t].cells, MaxRecords) :
              rows = [i \in 1..Len(cells) |-> RowOf(s.sanitized, cells[i])]
  /\ mapping = << >>
  /\ diagnostics = << >>
  /\ used_columns = {}
  /\ CsvIdle /\ BatchIdle /\ OutIdle /\ AuxIdle

NextRows ==
  \/ EnterConvert \/ NamePass \/ ValuePass \/ AdjustPass
  \/ AggregateTotals \/ ConvertRow \/ ReturnRows

SpecRows == InitRows /\ [][NextRows]_vars

\* The records built so far can be read: the loop has started.
Building == pc \in {"rows", "converted"} /\ rows # << >>

Converted == pc = "converted" /\ rows # << >>

\* The aggregate of the invoice of a record, 0.0 when there is none.
AggregateOrZero(entry) ==
  IF entry["nfe_id"] \in DOMAIN totals_by_nfe THEN totals_by_nfe[entry["nfe_id"]] ELSE FZero

\* C11 as stated: in a document without a line-total column the line total
\* of every record is the aggregate of its invoice when there is one, and 0
\* otherwise.
C11_LineTotalIsAggregateOrZero ==
  (Building /\ "produto_valor_total" \notin DOMAIN mapping) =>
    \A i \in 1..Len(result) : result[i]["produto_valor_total"] = AggregateOrZero(result[i])

\* C11 amended: in a document without a line-total column the line total of
\* a record is the invoice total in the row's own cell when that is not
\* zero; otherwise the aggregate of its invoice when there is one; otherwise 0.
C11_LineTotalIsOwnTotalThenAggregate ==
  (Building /\ "produto_valor_total" \notin DOMAIN mapping) =>
    \A i \in 1..Len(result) :
      result[i]["produto_valor_total"] =
        IF NumberOf(rows[i], mapping, "valor_total_nfe") # FZero
          THEN NumberOf(rows[i], mapping, "valor_total_nfe")
        ELSE AggregateOrZero(result[i])

\* Two rows of one invoice with totals 10 and 20 and no line-total column:
\* the aggregate is 20, the first record's line total is its own 10; a
\* third kind of row, with an empty cell, takes the aggregate.
C11_Witness ==
  /\ Converted
  /\ "produto_valor_total" \notin DOMAIN mapping
  /\ "valor_total_nfe" \in DOMAIN mapping
  /\ "N1" \in DOMAIN totals_by_nfe
  /\ totals_by_nfe["N1"] = F(Rat(20, 1))
  /\ Len(result) = 2
  /\ result[1]["nfe_id"] = "N1"
  /\ result[1]["produto_valor_total"] = F(Rat(10, 1))
  /\ result[2]["produto_valor_total"] = F(Rat(20, 1))

\* A row without a total of its own took the aggregate of its invoice.
AggregateTaken ==
  /\ Converted
  /\ "produto_valor_total" \notin DOMAIN mapping
  /\ \E i \in 1..Len(result) :
       /\ NumberOf(rows[i], mapping, "valor_total_nfe") = FZero
       /\ result[i]["produto_valor_total"] = F(Rat(20, 1))

\* The table whose headers are canonical field names.
CanonicalTable ==
  Range(columns) = {"nfe_id", "valor_total_nfe", "produto_nome", "emitente_uf"}

\* Some alias of the field is the normalized header of the column.
EqualsAnAlias(field, column) ==
  \E i \in 1..Len(CSV_FIELD_ALIASES[field]) :
    CSV_FIELD_ALIASES[field][i] = normalized_headers(column)

\* Some alias of the field is contained in the normalized header.
ContainsAnAlias(field, column) ==
  \E i \in 1..Len(CSV_FIELD_ALIASES[field]) :
    /\ CSV_FIELD_ALIASES[field][i] # ""
    /\ Contains(normalized_headers(column), CSV_FIELD_ALIASES[field][i])

\* C14: for a table whose headers are the canonical field names the record
\* carries the row's values under those fields and the confidence of
\* produto_nome and of valor_total_nfe is 1.0; a name score is 1.0 exactly
\* when the normalized header equals an alias, and 0.95 when an alias is
\* only contained in it.
C14_CanonicalHeadersMatchExactly ==
  (Converted /\ CanonicalTable) =>
    /\ \A i \in 1..Len(result) :
         /\ result[i]["nfe_id"] = Strip(rows[i]["nfe_id"])
         /\ result[i]["produto_nome"] = rows[i]["produto_nome"]
         /\ result[i]["emitente_uf"] = Upper(rows[i]["emitente_uf"])
         /\ rows[i]["valor_total_nfe"] # "" =>
              result[i]["valor_total_nfe"]
                = FloatValue(parse_safe_float(rows[i]["valor_total_nfe"]))
    /\ {"produto_nome", "valor_total_nfe"} \subseteq DOMAIN diagnostics
    /\ diagnostics["produto_nome"].score = 1000
    /\ diagnostics["valor_total_nfe"].score = 1000
    /\ \A field \in Fields : \A c \in 1..Len(columns) :
         /\ NameScore(field, columns[c]) = NameExact <=> EqualsAnAlias(field, columns[c])
         /\ (ContainsAnAlias(field, columns[c]) /\ ~EqualsAnAlias(field, columns[c])) =>
              NameScore(field, columns[c]) = NameSubstring

\* The part of C14 that holds: the values are carried, valor_total_nfe has
\* confidence 1.0, equality with an alias scores 1.0, and a header that only
\* contains an alias scores at least 0.95.
CanonicalValuesCarried ==
  (Converted /\ CanonicalTable) =>
    /\ \A i \in 1..Len(result) :
         /\ result[i]["nfe_id"] = Strip(rows[i]["nfe_id"])
         /\ result[i]["produto_nome"] = rows[i]["produto_nome"]
         /\ result[i]["emitente_uf"] = Upper(rows[i]["emitente_uf"])
         /\ rows[i]["valor_total_nfe"] # "" =>
              result[i]["valor_total_nfe"]
                = FloatValue(parse_safe_float(rows[i]["valor_total_nfe"]))
    /\ diagnostics["valor_total_nfe"].score = 1000
    /\ \A field \in Fields : \A c \in 1..Len(columns) :
         /\ EqualsAnAlias(field, columns[c]) => NameScore(field, columns[c]) = NameExact
         /\ ContainsAnAlias(field, columns[c]) =>
              RLeq(NameSubstring, NameScore(field, columns[c]))

\* The canonical table converted: valor_total_nfe matched with confidence
\* 1.0, produto_nome by the alias "produto" it contains with 0.95, and
\* emitente_uf with 1.0 by the alias "uf emitente", which it does not equal.
C14_Witness ==
  /\ Converted
  /\ CanonicalTable
  /\ diagnostics["valor_total_nfe"] =
       [column |-> "valor_total_nfe", score |-> 1000, matched_by |-> "alias"]
  /\ diagnostics["produto_nome"] =
       [column |-> "produto_nome", score |-> 950, matched_by |-> "alias"]
  /\ ~EqualsAnAlias("produto_nome", "produto_nome")
  /\ ~EqualsAnAlias("emitente_uf", "emitente_uf")
  /\ NameScore("emitente_uf", "emitente_uf") = NameExact

\* x is a float, not None.
IsNumber(x) == DOMAIN x = {"hi", "lo"} /\ x.hi \in Int /\ x.lo.n \in Int /\ x.lo.d > 0

\* The numeric fields the builder fills from their own cell only.
PlainNumericFields ==
  CSV_NUMERIC_FIELDS \ {"valor_total_nfe", "produto_valor_total", "produto_valor_unit"}

\* C16: one record per row, in the order of the rows: the i-th record is
\* the record of the i-th row (its text fields are that row's cells), the
\* first records are the analyzer's samples in the same order, and at the
\* return row_count and record_count are the number of rows; every
\* monetary or quantity field of every record is a number, which is zero
\* when the field has no column or its cell has no digit.  A table without
\* rows gives no record and row_count 0.
C16_OneRecordPerRowInOrder ==
  /\ Building =>
       /\ Len(result) <= Len(rows)
       /\ analyzer.row_count = Len(result)
       /\ \A i \in 1..Len(result) :
            /\ result[i] = EntryOf(rows[i], mapping, totals_by_nfe)
            /\ \A field \in DOMAIN mapping \ (CSV_NUMERIC_FIELDS \cup CNPJ_FIELDS) :
                 _contains_alpha(rows[i][mapping[field]]) =>
                   Upper(result[i][field]) = Upper(Strip(rows[i][mapping[field]]))
            /\ i <= 3 => analyzer.sample_records[i] = result[i]
            /\ \A field \in CSV_NUMERIC_FIELDS : IsNumber(result[i][field])
            /\ \A field \in PlainNumericFields :
                 (field \notin DOMAIN mapping \/ _digits(CellOf(rows[i], mapping, field)) = "")
                   => result[i][field] = FZero
  /\ Converted =>
       /\ Len(result) = Len(rows)
       /\ meta.row_count = Len(rows)
       /\ meta.semantic_summary.record_count = Len(rows)
  /\ (pc = "converted" /\ rows = << >>) => (result = << >> /\ meta.row_count = 0)

\* Two different rows converted in order, the second with a quantity cell
\* without digits: its quantity is 0.0.
C16_Witness ==
  /\ Converted
  /\ Len(result) = 2
  /\ result[1]["produto_nome"] = "Lapis"
  /\ result[2]["produto_nome"] = "Caneta"
  /\ rows[2][mapping["produto_qtd"]] = "n/d"
  /\ result[2]["produto_qtd"] = FZero
  /\ result[1]["produto_qtd"] = F(Rat(2, 1))
  /\ meta.semantic_summary.record_count = 2

----------------------------------------------------------------------------
(* The table reconstructor for text documents: _split_table_cells and      *)
(* _extract_structured_rows_from_text.                                     *)

\* lines of a text document
MaxTextLines == 5

\* Lines of a text document: a header of five cells, a row of five numbers,
\* a row of three cells with a letter, a row of two cells, and a line of
\* separators alone.
TEXT_LINES ==
  { "Produto;CFOP;Qtd;Valor;UF",
    "1 | 5102 | 2 | 10,00 | 35",
    "Caneta\t5102\t7",
    "Total  30,00",
    ";;" }

\* lines of a summarized text document
MaxDocLines == 3

\* Lines of a text document: prose, a supplier with its CNPJ, a CNPJ alone
\* on its line, a total with fiscal codes and a state, and a table of a
\* header and a row.
DOC_LINES ==
  { "Nota de venda",
    "Fornecedor X CNPJ: 12.345.678/0001-90",
    "CNPJ 98765432000110",
    "Valor Total: 1.500,00 CFOP 5102 NCM: 96081000 UF: sp",
    "CNPJ Emitente;Produto;Valor Total",
    "12.345.678/0001-90;Caneta;10,00" }

\* The whitespace characters that stand next to another one: the matches
\* of \s{2,} are the runs of them.
WideGaps(s) ==
  { i \in 1..Len(s) :
      /\ IsSpaceChar(Ch(s, i))
      /\ \/ (i > 1 /\ IsSpaceChar(Ch(s, i - 1)))
         \/ (i < Len(s) /\ IsSpaceChar(Ch(s, i + 1))) }

\* The pieces of s between the positions `at`.
SplitAt(s, at) ==
  [k \in 1..(Cardinality(at) + 1) |->
     SubSeq(s, CutAt(at, k - 1, Len(s)) + 1, CutAt(at, k, Len(s)) - 1)] @@ << >>

\* [cell.strip() for cell in pieces if cell.strip()]
StrippedCells(pieces) ==
  SelectSeq([i \in 1..Len(pieces) |-> Strip(pieces[i])] @@ << >>, LAMBDA cell : cell # "")

_split_table_cells(line) ==
  With(Strip(line), LAMBDA stripped :
    IF stripped = "" THEN << >>
    ELSE IF CountChar(stripped, ";") >= 2 THEN StrippedCells(SplitOn(stripped, {";"}))
    ELSE IF CountChar(stripped, "|") >= 2 THEN StrippedCells(SplitOn(stripped, {"|"}))
    ELSE IF HasChar(stripped, "\t") THEN StrippedCells(SplitOn(stripped, {"\t"}))
    ELSE StrippedCells(SplitAt(stripped, WideGaps(stripped))))

\* [line.rstrip() for line in text.splitlines() if line.strip()]
KeptLines(document) ==
  With(SelectSeq(SplitLines(document), LAMBDA line : Strip(line) # ""), LAMBDA kept :
    [i \in 1..Len(kept) |-> RStrip(kept[i])] @@ << >>)

\* The cells of the lines of the vocabulary, and of any line.
LineCells == [line \in TEXT_LINES \cup DOC_LINES |-> _split_table_cells(line)]

CellsOf(line) == IF line \in DOMAIN LineCells THEN LineCells[line] ELSE _split_table_cells(line)

\* Line 1534: the cells can be a header.
IsHeader(cells) ==
  Len(cells) >= 3 /\ \E i \in 1..Len(cells) : _contains_alpha(cells[i])

\* max(2, len(header_cells) - 1)
MinCells(header_cells) == IF Len(header_cells) - 1 > 2 THEN Len(header_cells) - 1 ELSE 2

\* Lines 1546-1550: the row cut or padded to the width of the header.
FitRow(row_cells, width) ==
  [k \in 1..width |-> IF k <= Len(row_cells) THEN row_cells[k] ELSE ""]

\* The inner loop (lines 1539-1552) for the header at index `at` (from 0):
\* the index idx2 it stops at, which is the first later line that has cells
\* but fewer than MinCells, or the number of lines.
EndOfTable(kept, header_cells, at) ==
  With({ j \in (at + 1)..(Len(kept) - 1) :
           /\ CellsOf(kept[j + 1]) # << >>
           /\ Len(CellsOf(kept[j + 1])) < MinCells(header_cells) }, LAMBDA breaks :
    IF breaks = {} THEN Len(kept) ELSE First(breaks))

\* The cells of the rows the inner loop appended: the lines between the
\* header and idx2 that have cells.
RowCells(kept, header_cells, at, idx2) ==
  With(SelectSeq([j \in 1..(idx2 - at - 1) |-> CellsOf(kept[at + j + 1])] @@ << >>,
                 LAMBDA cells : cells # << >>), LAMBDA found :
    [r \in 1..Len(found) |-> FitRow(found[r], Len(header_cells))] @@ << >>)

\* dict(zip(header_cells, row_cells)): a repeated header keeps its last cell.
ZipDict(header_cells, row_cells) ==
  [key \in Range(header_cells) |->
     row_cells[Last({ k \in 1..Len(header_cells) : header_cells[k] = key })]]

\* One table of candidate_tables (line 1554).
CandidateTable(header_cells, row_cells, start, end) ==
  [header |-> header_cells,
   rows |-> [r \in 1..Len(row_cells) |-> ZipDict(header_cells, row_cells[r])] @@ << >>,
   start |-> start, end |-> end]

\* max(candidate_tables, key=len of rows): the first of the longest.
LongestTable_Last(tables) ==
  tables[Last({ t \in 1..Len(tables) : \A u \in 1..Len(tables) : Len(tables[u].rows) <= Len(tables[t].rows) })]

LongestTable(tables) ==
  tables[First({ t \in 1..Len(tables) : \A u \in 1..Len(tables) : Len(tables[u].rows) <= Len(tables[t].rows) })]

\* _prepare_generic_rows of the rows of a table: the columns are the keys
\* in order, the cells are stripped.
_prepare_generic_rows(table_rows, header_cells) ==
  With(KeysInOrder(header_cells, << >>), LAMBDA ordered_columns :
  With(_sanitize_fieldnames(ordered_columns), LAMBDA named :
    [rows |-> [r \in 1..Len(table_rows) |->
                 [alias \in Range(named.sanitized) |->
                    Strip(table_rows[r][named.display_map[alias]])]] @@ << >>,
     display_map |-> named.display_map,
     columns |-> named.sanitized]))

\* Lines 1564-1569.
TableMetaOf(table) ==
  [table_header |-> table.header, table_start_line |-> table.start,
   table_end_line |-> table.end, table_row_count |-> Len(table.rows)]

\* Lines 1529-1531: the lines with text.
KeepLines ==
  /\ pc = "lines"
  /\ text_lines' = KeptLines(doc_text)
  /\ idx' = 0
  /\ candidate_tables' = << >>
  /\ pc' = "scan"
  /\ UNCHANGED << mapVars, csvVars, batchVars, outVars, rowVars, pipeVars, extraVars,
                  extension, doc_text, table_meta, doc >>

\* One iteration of the outer loop (lines 1532-1557).
ScanLine ==
  /\ pc = "scan"
  /\ idx < Len(text_lines)
  /\ \E kept \in {text_lines} :
     \E header_cells \in {CellsOf(kept[idx + 1])} :
       IF ~IsHeader(header_cells)
         THEN idx' = idx + 1 /\ UNCHANGED candidate_tables
       ELSE \E idx2 \in {EndOfTable(kept, header_cells, idx)} :
            \E row_cells \in {RowCells(kept, header_cells, idx, idx2)} :
              IF Len(row_cells) >= 1
                THEN /\ candidate_tables' =
                          Append(candidate_tables, CandidateTable(header_cells, row_cells, idx, idx2))
                     /\ idx' = idx2
              ELSE idx' = idx + 1 /\ UNCHANGED candidate_tables
  /\ UNCHANGED << pc, mapVars, csvVars, batchVars, outVars, rowVars, pipeVars, extraVars,
                  extension, doc_text, text_lines, table_meta, doc >>

\* The end of the loop (lines 1559-1570): the longest table is prepared.
SelectTable ==
  /\ pc = "scan"
  /\ idx >= Len(text_lines)
  /\ IF candidate_tables = << >>
       THEN /\ table_meta' = << >>
            /\ UNCHANGED << rows, display_map, columns >>
     ELSE \E table \in {LongestTable(candidate_tables)} :
          \E prepared \in {_prepare_generic_rows(table.rows, table.header)} :
            /\ rows' = prepared.rows
            /\ display_map' = prepared.display_map
            /\ columns' = prepared.columns
            /\ table_meta' = TableMetaOf(table)
  /\ pc' = "extracted"
  /\ UNCHANGED << mapping, diagnostics, used_columns, csvVars, batchVars, outVars, rowVars,
                  pipeVars, extraVars, extension, doc_text, text_lines, idx, candidate_tables, doc >>

\* The texts of up to n of the given lines.
TextsOf(vocabulary, n) ==
  { Join(chosen, "\n") : chosen \in UNION { [1..k -> vocabulary] : k \in 0..n } }

InitReconstruct ==
  /\ pc = "lines"
  /\ doc_text \in TextsOf(TEXT_LINES, MaxTextLines)
  /\ extension = "ocr" /\ text_lines = << >> /\ idx = 0 /\ candidate_tables = << >>
  /\ table_meta = << >> /\ doc = << >>
  /\ MapIdle /\ CsvIdle /\ BatchIdle /\ OutIdle /\ RowIdle /\ PipeIdle /\ ExtraIdle

NextReconstruct == KeepLines \/ ScanLine \/ SelectTable

SpecReconstruct == InitReconstruct /\ [][NextReconstruct]_vars

HasLetterCell(cells) ==
  \E i \in 1..Len(cells) : \E c \in 1..Len(cells[i]) : IsAlphaChar(Ch(cells[i], c))

\* The cells of each line with text, by its index from 0.
CellsByIndex == [j \in 0..(Len(text_lines) - 1) |-> _split_table_cells(text_lines[j + 1])]

\* The lines of a table that have cells, between its header and its end.
RowLinesOf(table, cells) == { j \in (table.start + 1)..(table.end - 1) : cells[j] # << >> }

\* The candidate table is a header line followed by its rows.
WellFormedTable(table, cells) ==
  LET width == Len(table.header)
  IN  /\ table.header = cells[table.start]
      /\ width >= 3
      /\ HasLetterCell(table.header)
      /\ table.start < table.end
      /\ table.end <= idx
      /\ Len(table.rows) = Cardinality(RowLinesOf(table, cells))
      /\ Len(table.rows) >= 1
      /\ \A j \in RowLinesOf(table, cells) :
           /\ Len(cells[j]) >= 2
           /\ Len(cells[j]) >= width - 1
           /\ \E r \in 1..Len(table.rows) :
                \A k \in 1..width :
                  table.rows[r][table.header[k]] =
                    IF k <= Len(cells[j]) THEN cells[j][k] ELSE ""
      /\ table.end < Len(text_lines) =>
           /\ cells[table.end] # << >>
           /\ Len(cells[table.end]) < 2 \/ Len(cells[table.end]) < width - 1

\* C20: in the table reconstructor a line with fewer than 3 cells or with
\* no alphabetic cell is never a header; the rows of a table are the lines
\* with cells between its header and its end, each with at least
\* max(2, header cells - 1) cells, and the line a table ends at (one with
\* fewer cells than that) is a row of no table; the selected table is the
\* one with the most rows, the first of them when several have as many.
C20_TablesFromHeadersAndFullRows ==
  pc \in {"scan", "extracted"} =>
    /\ \E cells \in {CellsByIndex} :
         \A t \in 1..Len(candidate_tables) :
           /\ WellFormedTable(candidate_tables[t], cells)
           /\ t < Len(candidate_tables) =>
                candidate_tables[t].end <= candidate_tables[t + 1].start
    /\ (pc = "extracted" /\ candidate_tables = << >>) => (rows = << >> /\ table_meta = << >>)
    /\ (pc = "extracted" /\ candidate_tables # << >>) =>
         /\ \E t \in 1..Len(candidate_tables) :
              /\ table_meta = TableMetaOf(candidate_tables[t])
              /\ Len(rows) = Len(candidate_tables[t].rows)
              /\ \A r \in 1..Len(rows) : \A key \in DOMAIN rows[r] :
                   rows[r][key] = candidate_tables[t].rows[r][key]
         /\ \A t \in 1..Len(candidate_tables) :
              /\ Len(candidate_tables[t].rows) <= table_meta.table_row_count
              /\ candidate_tables[t].start < table_meta.table_start_line =>
                   Len(candidate_tables[t].rows) < table_meta.table_row_count

\* A table of one row ended by a line of three cells where four are needed,
\* which is the header of a second table of two rows, the selected one.
C20_Witness ==
  /\ pc = "extracted"
  /\ doc_text = "Produto;CFOP;Qtd;Valor;UF\n1 | 5102 | 2 | 10,00 | 35\nCaneta\t5102\t7\nTotal  30,00\nTotal  30,00"
  /\ Len(candidate_tables) = 2
  /\ candidate_tables[1].end = 2
  /\ table_meta.table_start_line = 2
  /\ table_meta.table_header = << "Caneta", "5102", "7" >>
  /\ table_meta.table_row_count = 2
  /\ rows[1]["Caneta"] = "Total" /\ rows[1]["5102"] = "30,00" /\ rows[1]["7"] = ""

\* Two tables with one row each: the first is selected.
FirstOfEqualTables ==
  /\ pc = "extracted"
  /\ Len(candidate_tables) = 2
  /\ Len(candidate_tables[1].rows) = Len(candidate_tables[2].rows)
  /\ table_meta.table_start_line = candidate_tables[1].start

----------------------------------------------------------------------------
(* Text documents (.ocr, .pdf): _infer_metadata_from_text,                 *)
(* _summarize_text_document, _parse_tabular_text, _parse_pdf, _parse_ocr   *)
(* and the status _handle_single_file gives the document.  A regular       *)
(* expression is modelled by the search it performs: the leftmost position *)
(* at which it matches, and the group it captures there.                   *)

\* No match of a search.
NoMatch == [at |-> 0, end |-> 0, value |-> ""]

\* The first position from p on whose character is not in `class`; one
\* past the end when there is none.
EndOfRun(s, p, class) ==
  First({ q \in p..(Len(s) + 1) : q = Len(s) + 1 \/ Ch(s, q) \notin class })

SpaceChars == {" ", "\t", "\n", "\r"}

\* The word w stands at position p, in any case.
WordAt(s, p, w) ==
  /\ p >= 1
  /\ p + Len(w) - 1 <= Len(s)
  /\ \A k \in 1..Len(w) : LowerChar(Ch(s, p + k - 1)) = Ch(w, k)

\* class{lo,hi} at position p: the captured run, NoMatch when it is too short.
RunAt(s, p, class, lo, hi) ==
  With(EndOfRun(s, p, class) - p, LAMBDA run :
    IF run < lo THEN NoMatch
    ELSE [at |-> p, end |-> p + Min(run, hi), value |-> SubSeq(s, p, p + Min(run, hi) - 1)])

\* \s*[:\-]?\s*(class{lo,hi}) at position p: the separator is consumed
\* when the group matches after it, and is left to the group otherwise.
ValueAfter(s, p, class, lo, hi) ==
  With(EndOfRun(s, p, SpaceChars), LAMBDA p1 :
    IF /\ p1 <= Len(s)
       /\ Ch(s, p1) \in {":", "-"}
       /\ RunAt(s, EndOfRun(s, p1 + 1, SpaceChars), class, lo, hi) # NoMatch
      THEN RunAt(s, EndOfRun(s, p1 + 1, SpaceChars), class, lo, hi)
    ELSE RunAt(s, p1, class, lo, hi))

\* re.search(keyword \s*[:\-]?\s*(class{lo,hi}), s, re.IGNORECASE): `at`
\* is the position of the keyword, `value` the group.
SearchKeyword(s, keyword, class, lo, hi) ==
  With({ p \in 1..Len(s) :
           WordAt(s, p, keyword) /\ ValueAfter(s, p + Len(keyword), class, lo, hi) # NoMatch },
       LAMBDA found :
    IF found = {} THEN NoMatch
    ELSE [ValueAfter(s, First(found) + Len(keyword), class, lo, hi) EXCEPT !.at = First(found)])

\* (\d{44})
SearchAccessKey(s) ==
  With({ p \in 1..(Len(s) - 43) : \A q \in p..(p + 43) : Ch(s, q) \in DigitChars }, LAMBDA found :
    IF found = {} THEN NoMatch
    ELSE [at |-> First(found), end |-> First(found) + 44,
          value |-> SubSeq(s, First(found), First(found) + 43)])

\* \s+word at position p: the position after the word, 0 without a match.
AfterWord(s, p, w) ==
  IF p >= 1 /\ p <= Len(s) /\ Ch(s, p) \in SpaceChars /\ WordAt(s, EndOfRun(s, p, SpaceChars), w)
    THEN EndOfRun(s, p, SpaceChars) + Len(w)
  ELSE 0

\* Valor\s+Total(?:\s+da\s+NF-?e|) at position p: the positions after it, the
\* one after "da NF-e" first.
TotalLabelEnds(s, p) ==
  IF ~WordAt(s, p, "valor") \/ AfterWord(s, p + 5, "total") = 0 THEN << >>
  ELSE With(AfterWord(s, p + 5, "total"), LAMBDA e1 :
       With(AfterWord(s, AfterWord(s, e1, "da"), "nf"), LAMBDA nf :
         (IF nf > 0 /\ WordAt(s, nf, "-e") THEN << nf + 2 >>
          ELSE IF nf > 0 /\ WordAt(s, nf, "e") THEN << nf + 1 >>
          ELSE << >>) \o << e1 >>))

TotalChars == DigitChars \cup {".", ","}

\* The group of the total pattern matched at position p.
TotalAt(s, p) ==
  With(SelectSeq(TotalLabelEnds(s, p),
                 LAMBDA e : ValueAfter(s, e, TotalChars, 1, Len(s)) # NoMatch), LAMBDA ends :
    IF ends = << >> THEN NoMatch ELSE ValueAfter(s, ends[1], TotalChars, 1, Len(s)))

SearchTotal(s) ==
  With({ p \in 1..Len(s) : TotalAt(s, p) # NoMatch }, LAMBDA found :
    IF found = {} THEN NoMatch ELSE TotalAt(s, First(found)))

AsciiLetters == CharsOf(UpperLetters) \cup CharsOf(LowerLetters)

WordChars == AsciiLetters \cup DigitChars \cup {"_"} \cup CharsOf(AccentedLetters)

\* \b between positions p - 1 and p.
WordBoundary(s, p) ==
  (p > 1 /\ Ch(s, p - 1) \in WordChars) # (p <= Len(s) /\ Ch(s, p) \in WordChars)

\* ([A-Z]{2})\b at position p.
StateAt(s, p) ==
  IF /\ p + 1 <= Len(s)
     /\ Ch(s, p) \in AsciiLetters
     /\ Ch(s, p + 1) \in AsciiLetters
     /\ WordBoundary(s, p + 2)
    THEN [at |-> p, end |-> p + 2, value |-> SubSeq(s, p, p + 1)]
  ELSE NoMatch

\* \bUF\s*[:\-]?\s*([A-Z]{2})\b at position p.
UfAt(s, p) ==
  IF ~(WordAt(s, p, "uf") /\ WordBoundary(s, p)) THEN NoMatch
  ELSE With(EndOfRun(s, p + 2, SpaceChars), LAMBDA p1 :
         IF /\ p1 <= Len(s)
            /\ Ch(s, p1) \in {":", "-"}
            /\ StateAt(s, EndOfRun(s, p1 + 1, SpaceChars)) # NoMatch
           THEN StateAt(s, EndOfRun(s, p1 + 1, SpaceChars))
         ELSE StateAt(s, p1))

\* uf_pattern.findall(joined): the first two matches.
FindStates(s) ==
  With({ p \in 1..Len(s) : UfAt(s, p) # NoMatch }, LAMBDA found :
    IF found = {} THEN << >>
    ELSE With(UfAt(s, First(found)), LAMBDA first :
         With({ p \in found : p >= first.end }, LAMBDA later :
           IF later = {} THEN << first.value >>
           ELSE << first.value, UfAt(s, First(later)).value >>)))

\* str.strip(chars)
StripChars(s, chars) ==
  With({ i \in 1..Len(s) : Ch(s, i) \notin chars }, LAMBDA kept :
    IF kept = {} THEN "" ELSE SubSeq(s, First(kept), Last(kept)))

CnpjChars == DigitChars \cup {".", "-", "/"}

\* The loop over the lines (1436-1453) from line i on: `found` are the
\* digits of the candidates, in order.
RECURSIVE CnpjLoop(_, _, _, _)
CnpjLoop(stripped, i, found, metadata) ==
  IF i > Len(stripped) THEN metadata
  ELSE
    With(SearchKeyword(stripped[i], "cnpj", CnpjChars, 14, 18), LAMBDA match :
    With(KeepChars(match.value, DigitChars), LAMBDA digits :
    With(StripChars(SubSeq(stripped[i], 1, match.at - 1), {":", "-", " "}), LAMBDA before :
    With(IF before = "" /\ i > 1 THEN stripped[i - 1] ELSE before, LAMBDA name :
      IF match = NoMatch \/ digits \in Range(found)
        THEN CnpjLoop(stripped, i + 1, found, metadata)
      ELSE IF found = << >>
        THEN CnpjLoop(stripped, i + 1, << digits >>,
                      [metadata EXCEPT !["emitente_cnpj"] = digits, !["emitente_nome"] = name])
      ELSE [metadata EXCEPT !["destinatario_cnpj"] = digits, !["destinatario_nome"] = name]))))

METADATA_KEYS ==
  { "nfe_id", "emitente_nome", "emitente_cnpj", "emitente_uf", "destinatario_nome",
    "destinatario_cnpj", "destinatario_uf", "valor_total_nfe", "cfop", "ncm" }

\* [line.strip() for line in text.splitlines() if line.strip()]
StrippedLines(document) ==
  With(SelectSeq(SplitLines(document), LAMBDA line : Strip(line) # ""), LAMBDA kept :
    [i \in 1..Len(kept) |-> Strip(kept[i])] @@ << >>)

_infer_metadata_from_text(document) ==
  With(StrippedLines(document), LAMBDA stripped :
  With(Join(stripped, "\n"), LAMBDA joined :
  With(FindStates(joined), LAMBDA uf_matches :
    CnpjLoop(stripped, 1, << >>,
      [key \in METADATA_KEYS |->
         CASE key = "nfe_id" -> SearchAccessKey(joined).value
           [] key = "cfop" -> SearchKeyword(joined, "cfop", DigitChars, 4, 4).value
           [] key = "ncm" -> SearchKeyword(joined, "ncm", DigitChars, 8, 8).value
           [] key = "valor_total_nfe" -> SearchTotal(joined).value
           [] key = "emitente_uf" -> IF Len(uf_matches) >= 1 THEN Upper(uf_matches[1]) ELSE None
           [] key = "destinatario_uf" -> IF Len(uf_matches) >= 2 THEN Upper(uf_matches[2]) ELSE None
           [] OTHER -> None]))))

\* _extract_currency: the number, 0.0 standing for None as well (every use
\* of the result is `valor_total or 0.0` or its truth value).
_extract_currency(raw_value) ==
  FloatValue(FloatOf(ReplaceChar(ReplaceChar(Strip(raw_value), ".", ""), ",", ".")))

\* The record of a text document (lines 1467-1496).
TextEntry(metadata, source_name) ==
  With(_extract_currency(metadata["valor_total_nfe"]), LAMBDA valor_total :
    [field \in Fields |->
       CASE field = "nfe_id" -> metadata["nfe_id"]
         [] field \in {"valor_total_nfe", "produto_valor_unit", "produto_valor_total"} -> valor_total
         [] field = "emitente_nome" -> metadata["emitente_nome"]
         [] field = "emitente_cnpj" -> _mask_cnpj(metadata["emitente_cnpj"])
         [] field = "emitente_uf" -> metadata["emitente_uf"]
         [] field = "destinatario_nome" -> metadata["destinatario_nome"]
         [] field = "destinatario_cnpj" -> _mask_cnpj(metadata["destinatario_cnpj"])
         [] field = "destinatario_uf" -> metadata["destinatario_uf"]
         [] field = "produto_nome" -> "Resumo " \o source_name
         [] field = "produto_ncm" -> metadata["ncm"]
         [] field = "produto_cfop" -> metadata["cfop"]
         [] field = "produto_qtd" -> IF valor_total # FZero THEN F(One) ELSE FZero
         [] field \in CSV_NUMERIC_FIELDS -> FZero
         [] OTHER -> None])

\* {key: value for key, value in metadata.items() if value}
ExtractedFields(metadata) ==
  [key \in { k \in DOMAIN metadata : metadata[k] # None } |-> metadata[key]]

\* Lines 1498-1510: the analyzer's part and the flags of a text summary.
TextMeta(metadata, entry) ==
  With(finalize(observe(NewAnalyzer([key \in Fields |-> key], [key \in Fields |-> key]), entry)),
       LAMBDA semantic_meta :
    [semantic_meta EXCEPT !.processing_stats.mode = "textual-summary"]
      @@ [extracted_fields |-> ExtractedFields(metadata),
          has_text_only |-> TRUE,
          has_structured_table |-> FALSE,
          analysis_scope |-> "full_document"])

\* Mutation of _summarize_text_document: a text without any recognised
\* field gives no record.
_summarize_text_document_OnlyWithFields(document, source_name) ==
  With(_infer_metadata_from_text(document), LAMBDA metadata :
  With(TextEntry(metadata, source_name), LAMBDA entry :
    [data |-> IF ExtractedFields(metadata) = << >> THEN << >> ELSE << entry >>,
     meta |-> TextMeta(metadata, entry)]))

_summarize_text_document(document, source_name) ==
  With(_infer_metadata_from_text(document), LAMBDA metadata :
  With(TextEntry(metadata, source_name), LAMBDA entry :
    [data |-> << entry >>, meta |-> TextMeta(metadata, entry)]))

PdfError == "Nao foi possivel extrair conteudo deste PDF."

\* The tuple _parse_pdf and _parse_ocr return.
TextResult(data, document, error, diagnostics_bundle) ==
  [data |-> data, text |-> document, error |-> error, meta |-> diagnostics_bundle]

\* _parse_ocr reads the file; _parse_pdf takes what _extract_pdf_text gives,
\* "" with an error when no text could be extracted (lines 1585-1587).
ReadText ==
  /\ pc = "read"
  /\ IF extension = "pdf" /\ doc_text = ""
       THEN doc' = TextResult(<< >>, None, PdfError, << >>) /\ pc' = "handle"
     ELSE pc' = "lines" /\ UNCHANGED doc
  /\ UNCHANGED << mapVars, csvVars, batchVars, outVars, rowVars, pipeVars, extraVars,
                  extension, doc_text, text_lines, idx, candidate_tables, table_meta >>

\* _parse_tabular_text: `if not rows: return [], {}` (lines 1574-1577).
ParseTabular ==
  /\ pc = "extracted"
  /\ pc' = IF rows = << >> THEN "summarize" ELSE "convert"
  /\ UNCHANGED << mapVars, csvVars, batchVars, outVars, auxVars >>

\* The end of _parse_tabular_text and the return of the parser with the
\* records of the table (lines 1578-1581, 1589-1590, 1601-1602).
FinishTabular ==
  /\ pc = "converted"
  /\ meta' = [has_structured_table |-> TRUE, has_text_only |-> FALSE] @@ table_meta @@ meta
  /\ doc' = TextResult(result, doc_text, None, meta')
  /\ pc' = "handle"
  /\ UNCHANGED << mapVars, csvVars, batchVars, outVars, totals_by_nfe, result, analyzer,
                  pipeVars, extraVars, extension, doc_text, text_lines, idx, candidate_tables,
                  table_meta >>

\* The fallback of the parser (lines 1591-1592, 1603-1604).
Summarize ==
  /\ pc = "summarize"
  /\ \E summary \in {_summarize_text_document(doc_text, SourceName)} :
       /\ result' = summary.data
       /\ meta' = summary.meta
       /\ doc' = TextResult(summary.data, doc_text, None, summary.meta)
  /\ pc' = "handle"
  /\ UNCHANGED << mapVars, csvVars, batchVars, outVars, totals_by_nfe, analyzer,
                  pipeVars, extraVars, extension, doc_text, text_lines, idx, candidate_tables,
                  table_meta >>

\* _handle_single_file: the document returned (lines 1629-1639).
HandleText ==
  /\ pc = "handle"
  /\ doc' = ImportedDoc(SUPPORTED_KINDS(extension), SourceName, StatusOf(doc.data),
                        doc.data, doc.error)
              @@ [text |-> doc.text, meta |-> doc.meta]
  /\ pc' = "done"
  /\ UNCHANGED << mapVars, csvVars, batchVars, outVars, rowVars, pipeVars, extraVars,
                  extension, doc_text, text_lines, idx, candidate_tables, table_meta >>

\* A text document: what an .ocr file holds, or what _extract_pdf_text
\* returns for a .pdf file, which is "" or a text that is not blank.
InitText ==
  /\ pc = "read"
  /\ extension \in {"ocr", "pdf"}
  /\ doc_text \in TextsOf(DOC_LINES, MaxDocLines)
  /\ text_lines = << >> /\ idx = 0 /\ candidate_tables = << >>
  /\ table_meta = << >> /\ doc = << >>
  /\ MapIdle /\ CsvIdle /\ BatchIdle /\ OutIdle /\ RowIdle /\ PipeIdle /\ ExtraIdle

NextText ==
  \/ ReadText \/ KeepLines \/ ScanLine \/ SelectTable \/ ParseTabular
  \/ EnterConvert \/ NamePass \/ ValuePass \/ AdjustPass
  \/ AggregateTotals \/ ConvertRow \/ ReturnRows
  \/ FinishTabular \/ Summarize \/ HandleText

SpecText == InitText /\ [][NextText]_vars

\* The document is returned and no table was found in its text.
ReturnedWithoutTable == pc = "done" /\ doc_text # "" /\ candidate_tables = << >>

\* C15: a text document (.ocr file, or .pdf whose text was extracted) with
\* a non-empty text in which no table of at least one row is found is
\* returned with status "parsed", exactly one record, has_text_only true
\* and has_structured_table false, and without an error.
C15_TextWithoutTableGivesOneRecord ==
  ReturnedWithoutTable =>
    /\ doc.status = "parsed"
    /\ doc.error = None
    /\ Len(doc.data) = 1
    /\ doc.data[1]["produto_nome"] = "Resumo " \o doc.name
    /\ doc.meta.has_text_only = TRUE
    /\ doc.meta.has_structured_table = FALSE
    /\ doc.meta.semantic_summary.record_count = 1
    /\ doc.text = doc_text

\* A .pdf whose text is a table header without rows under it and a line of
\* prose: no table, one summary record.
C15_Witness ==
  /\ ReturnedWithoutTable
  /\ extension = "pdf"
  /\ doc_text = "CNPJ Emitente;Produto;Valor Total\nNota de venda"
  /\ doc.status = "parsed"
  /\ Len(doc.data) = 1
  /\ doc.meta.has_text_only
  /\ doc.meta.extracted_fields = << >>

\* A document whose text holds a table takes the tabular path.
ReturnedWithTable ==
  /\ pc = "done"
  /\ candidate_tables # << >>
  /\ doc.status = "parsed"
  /\ doc.meta.has_structured_table
  /\ ~doc.meta.has_text_only
  /\ Len(doc.data) = doc.meta.table_row_count

\* A value that holds a tax id in clear: 14 digits or more.
InClear(value) == Len(_digits(value)) >= 14

\* The tax ids of a list of records are masked or absent.
TaxIdsMasked(records) ==
  \A i \in 1..Len(records) : \A field \in CNPJ_FIELDS : ~InClear(records[i][field])

\* C17 as stated: on the tabular path and on the text-only path the
\* returned document holds no tax id of 14 or more digits in clear, neither
\* in a record nor in the diagnostics (sample records, extracted fields).
C17_NoTaxIdInClear ==
  (pc = "done" /\ doc.data # << >>) =>
    /\ TaxIdsMasked(doc.data)
    /\ TaxIdsMasked(doc.meta.sample_records)
    /\ "extracted_fields" \in DOMAIN doc.meta =>
         \A key \in DOMAIN doc.meta.extracted_fields \cap CNPJ_FIELDS :
           ~InClear(doc.meta.extracted_fields[key])

\* The part of C17 that holds: in the records and the sample records of
\* either path a tax id of 14 or more digits is its first 8 digits, four
\* asterisks and its last 2 digits.
TaxIdsMaskedInRecords ==
  (pc = "done" /\ doc.data # << >>) =>
    /\ TaxIdsMasked(doc.data)
    /\ TaxIdsMasked(doc.meta.sample_records)
    /\ \A i \in 1..Len(doc.data) :
         /\ (candidate_tables # << >> /\ "emitente_cnpj" \in DOMAIN mapping
               /\ InClear(rows[i][mapping["emitente_cnpj"]])) =>
              doc.data[i]["emitente_cnpj"]
                = SubSeq(_digits(rows[i][mapping["emitente_cnpj"]]), 1, 8) \o "****"
                    \o SubSeq(_digits(rows[i][mapping["emitente_cnpj"]]),
                              Len(_digits(rows[i][mapping["emitente_cnpj"]])) - 1,
                              Len(_digits(rows[i][mapping["emitente_cnpj"]])))
         /\ (candidate_tables = << >> /\ "emitente_cnpj" \in DOMAIN doc.meta.extracted_fields) =>
              doc.data[i]["emitente_cnpj"]
                = SubSeq(doc.meta.extracted_fields["emitente_cnpj"], 1, 8) \o "****"
                    \o SubSeq(doc.meta.extracted_fields["emitente_cnpj"], 13, 14)

\* A text-only document with a supplier line: the record holds the masked
\* tax id, the extracted fields of the diagnostics hold its 14 digits.
C17_Witness ==
  /\ pc = "done"
  /\ doc_text = "Fornecedor X CNPJ: 12.345.678/0001-90\nNota de venda"
  /\ doc.data[1]["emitente_cnpj"] = "12345678****90"
  /\ doc.data[1]["emitente_nome"] = "Fornecedor X"
  /\ doc.meta.has_text_only
  /\ doc.meta.extracted_fields["emitente_cnpj"] = "12345678000190"

\* A document with a table of tax ids: the record of the row holds the
\* masked tax id.
MaskedOnTabularPath ==
  /\ ReturnedWithTable
  /\ mapping["emitente_cnpj"] = "CNPJ Emitente"
  /\ rows[1]["CNPJ Emitente"] = "12.345.678/0001-90"
  /\ doc.data[1]["emitente_cnpj"] = "12345678****90"
  /\ doc.meta.sample_records[1]["emitente_cnpj"] = "12345678****90"


----------------------------------------------------------------------------
(* The fallbacks of the record builder (lines 1123-1154).                  *)

\* The number parsed from the mapped column of a field of row i.
ParsedOf(i, field) == NumberOf(rows[i], mapping, field)

\* produto_valor_total keeps a non-zero parsed value; produto_valor_unit is
\* replaced only when zero with a non-zero quantity, and then by
\* total / quantity.
LineFallbacksOnlyOnZero(i) ==
  /\ ParsedOf(i, "produto_valor_total") # FZero =>
       result[i]["produto_valor_total"] = ParsedOf(i, "produto_valor_total")
  /\ result[i]["produto_valor_unit"] # ParsedOf(i, "produto_valor_unit") =>
       /\ ParsedOf(i, "produto_valor_unit") = FZero
       /\ result[i]["produto_qtd"] # FZero
       /\ result[i]["produto_valor_unit"] =
            FDiv(result[i]["produto_valor_total"], result[i]["produto_qtd"])

\* The invoice total is read from the column of the identifier, or is a
\* number of at least 1e12, in an invoice that has an aggregate (lines
\* 1128-1139).
KeySizedTotal(i) ==
  /\ result[i]["nfe_id"] \in DOMAIN totals_by_nfe
  /\ \/ ColumnOf(mapping, "valor_total_nfe") = ColumnOf(mapping, "nfe_id")
     \/ IsAtLeast1e12(ParsedOf(i, "valor_total_nfe"))

\* C21 as stated: valor_total_nfe and produto_valor_total keep the value
\* parsed from their mapped column whenever it is not zero, and
\* produto_valor_unit is replaced by total / quantity only when it is zero
\* and the quantity is not.
C21_FallbackOnlyWhenZero ==
  Building =>
    \A i \in 1..Len(result) :
      /\ ParsedOf(i, "valor_total_nfe") # FZero =>
           result[i]["valor_total_nfe"] = ParsedOf(i, "valor_total_nfe")
      /\ LineFallbacksOnlyOnZero(i)

\* C21 amended: produto_valor_total keeps a non-zero parsed value and
\* produto_valor_unit is replaced by total / quantity only when it is zero
\* and the quantity is not; valor_total_nfe keeps a non-zero parsed value
\* unless its invoice has an aggregate and the value is read from the
\* identifier's column or is at least 1e12, and then it is the aggregate.
C21_FallbackOnlyWhenZeroOrKeySized ==
  Building =>
    \A i \in 1..Len(result) :
      /\ ParsedOf(i, "valor_total_nfe") # FZero =>
           result[i]["valor_total_nfe"] =
             IF KeySizedTotal(i) THEN totals_by_nfe[result[i]["nfe_id"]]
             ELSE ParsedOf(i, "valor_total_nfe")
      /\ LineFallbacksOnlyOnZero(i)

\* A record whose non-zero invoice total was replaced by an aggregate that
\* differs from it, next to a unit value derived from total / quantity.
C21_Witness ==
  /\ Converted
  /\ \E i \in 1..Len(result) :
       /\ ParsedOf(i, "valor_total_nfe") # FZero
       /\ KeySizedTotal(i)
       /\ result[i]["valor_total_nfe"] # ParsedOf(i, "valor_total_nfe")
  /\ \E i \in 1..Len(result) :
       /\ ParsedOf(i, "produto_valor_unit") = FZero
       /\ result[i]["produto_valor_unit"] # FZero

----------------------------------------------------------------------------
(* _sanitize_fieldnames and the loop of _read_csv_rows that turns the rows *)
(* under a header into dicts (lines 357-372, 482-500).  The header is a    *)
(* raw row of the reader: its cells are stripped and one of them is not    *)
(* empty.                                                                  *)

\* cells of a header
MaxFields == 3

\* The header cells to draw from: blank, plain, and one that looks like
\* the identifier of a repeat.
HEADER_CELLS == {"", "a", "a__1", "b"}

\* A row under the header: n cells, the p-th being "v<p>".
DataRow(n) == [p \in 1..n |-> "v" \o ToString(p)]

\* The identifier of a cleaned header met `count` times before (line 368).
AliasOf(cleaned, count) == IF count = 0 THEN cleaned ELSE cleaned \o "__" \o ToString(count)

\* One iteration of `for raw in fieldnames` (lines 361-371): a blank
\* header is skipped, another one gets its identifier.
SanitizeField ==
  /\ pc = "sanitize"
  /\ raw_pos < Len(raw_header)
  /\ raw_pos' = raw_pos + 1
  /\ \E cleaned \in {Strip(raw_header[raw_pos + 1])} :
       IF cleaned = ""
         THEN UNCHANGED << sanitized_list, display_map, alias_counts >>
       ELSE \E alias \in {AliasOf(cleaned, CountOf(alias_counts, cleaned))} :
              /\ alias_counts' = (cleaned :> CountOf(alias_counts, cleaned) + 1) @@ alias_counts
              /\ sanitized_list' = Append(sanitized_list, alias)
              /\ display_map' = (alias :> cleaned) @@ display_map
  /\ UNCHANGED << pc, rows, columns, mapping, diagnostics, used_columns, csvVars, batchVars,
                  outVars, rowVars, pipeVars, textVars, sniffVars, moreVars, raw_header,
                  raw_data_rows, row_pos >>

\* `return sanitized, display_map` (line 372)
ReturnFields ==
  /\ pc = "sanitize"
  /\ raw_pos = Len(raw_header)
  /\ pc' = "zip"
  /\ UNCHANGED << mapVars, csvVars, batchVars, outVars, rowVars, restVars >>

\* One iteration of `for raw_row in data_rows` (lines 489-500).
ZipRow ==
  /\ pc = "zip"
  /\ row_pos < Len(raw_data_rows)
  /\ row_pos' = row_pos + 1
  /\ \E row_dict \in {RowDict(raw_data_rows[row_pos + 1], sanitized_list)} :
       rows' = IF HasValue(row_dict) THEN Append(rows, row_dict) ELSE rows
  /\ UNCHANGED << pc, display_map, columns, mapping, diagnostics, used_columns, csvVars,
                  batchVars, outVars, rowVars, pipeVars, textVars, sniffVars, moreVars,
                  raw_header, raw_pos, sanitized_list, alias_counts, raw_data_rows >>

\* `return rows, display_map, structure_meta` (lines 501-510); the header
\* is the first raw row.
ReturnRead ==
  /\ pc = "zip"
  /\ row_pos = Len(raw_data_rows)
  /\ csv_read' = ReadResult(3, rows, display_map, 0, Len(sanitized_list))
  /\ pc' = "read"
  /\ UNCHANGED << mapVars, csv_text, container, batchVars, outVars, rowVars, restVars >>

InitFields ==
  /\ pc = "sanitize"
  /\ raw_header \in { h \in UNION { [1..k -> HEADER_CELLS] : k \in 1..MaxFields } :
                        \E p \in 1..Len(h) : h[p] # "" }
  /\ raw_data_rows \in UNION { [1..k -> { DataRow(n) : n \in 1..(MaxFields + 1) }] : k \in 1..2 }
  /\ raw_pos = 0 /\ sanitized_list = << >> /\ alias_counts = << >> /\ row_pos = 0
  /\ MapIdle /\ CsvIdle /\ BatchIdle /\ OutIdle /\ RowIdle /\ PipeIdle /\ TextIdle
  /\ SniffIdle /\ MoreIdle

NextFields == SanitizeField \/ ReturnFields \/ ZipRow \/ ReturnRead

SpecFields == InitFields /\ [][NextFields]_vars

\* _sanitize_fieldnames has returned.
Sanitized == pc \in {"zip", "read"}

\* The stripped header cells that are not blank, in order.
KeptHeaders == SelectSeq([p \in 1..Len(raw_header) |-> Strip(raw_header[p])], LAMBDA c : c # "")

\* The identifier derived from the k-th of a list of cleaned headers: the
\* header itself, or with the number of its earlier occurrences as suffix.
IdentifierOf(cleaned, k) ==
  AliasOf(cleaned[k], Cardinality({ j \in 1..(k - 1) : cleaned[j] = cleaned[k] }))

\* The loop of _sanitize_fieldnames computes what the function computes,
\* and the k-th identifier belongs to the k-th header that is not blank.
IdentifiersInHeaderOrder ==
  Sanitized =>
    /\ [sanitized |-> sanitized_list, display_map |-> display_map]
         = _sanitize_fieldnames(raw_header)
    /\ Len(sanitized_list) = Len(KeptHeaders)
    /\ \A k \in 1..Len(sanitized_list) : sanitized_list[k] = IdentifierOf(KeptHeaders, k)

\* C22 as stated: the identifiers _sanitize_fieldnames returns are pairwise
\* distinct and stand in the order of first appearance of their headers.
C22_IdentifiersAreDistinct ==
  Sanitized =>
    /\ \A j, k \in 1..Len(sanitized_list) : j # k => sanitized_list[j] # sanitized_list[k]
    /\ \A k \in 1..Len(sanitized_list) : sanitized_list[k] = IdentifierOf(KeptHeaders, k)

\* The header a, a, a__1: the repeat of a and the header a__1 get the same
\* identifier, and the display map has two entries for three columns.
C22_Witness ==
  /\ pc = "read"
  /\ raw_header = << "a", "a", "a__1" >>
  /\ sanitized_list = << "a", "a__1", "a__1" >>
  /\ Cardinality(DOMAIN display_map) = 2

\* The number of header cells up to p that are not blank.
KeptUpTo(p) == Cardinality({ q \in 1..p : Strip(raw_header[q]) # "" })

\* C28 as stated: in every row dict the cell at position p is stored under
\* the identifier derived from the header cell at position p (an empty
\* string when the row has no cell there), whatever the blanks of the
\* header and the lengths of header and row.
C28_CellsUnderTheirOwnHeader ==
  pc = "read" =>
    /\ Len(rows) = Len(raw_data_rows)
    /\ \A i \in 1..Len(rows) :
         \A p \in { q \in 1..Len(raw_header) : Strip(raw_header[q]) # "" } :
           /\ IdentifierOf(KeptHeaders, KeptUpTo(p)) \in DOMAIN rows[i]
           /\ rows[i][IdentifierOf(KeptHeaders, KeptUpTo(p))] =
                IF p <= Len(raw_data_rows[i]) THEN raw_data_rows[i][p] ELSE ""

\* The header a, blank, b over the row v1, v2, v3: the cell of the blank
\* column is stored under b, and the cell under b is lost.
C28_Witness ==
  /\ pc = "read"
  /\ raw_header = << "a", "", "b" >>
  /\ raw_data_rows[1] = << "v1", "v2", "v3" >>
  /\ rows[1] = [field \in {"a", "b"} |-> IF field = "a" THEN "v1" ELSE "v2"]

\* What holds of C28: a header without blank cell and without two cells of
\* one identifier has every cell of a row under the identifier of its own
\* position, for rows shorter and longer than the header.
AlignedWithoutBlanks ==
  (/\ pc = "read"
   /\ Len(KeptHeaders) = Len(raw_header)
   /\ Cardinality(Range(sanitized_list)) = Len(sanitized_list)) =>
    \A i \in 1..Len(rows) : \A p \in 1..Len(raw_header) :
      rows[i][sanitized_list[p]] =
        IF p <= Len(raw_data_rows[i]) THEN raw_data_rows[i][p] ELSE ""

----------------------------------------------------------------------------
(* _detect_csv_delimiter on the text _read_csv_rows hands it (line 461):   *)
(* the answer of csv.Sniffer, then the choice (lines 329-354).             *)

\* The lines of the texts: six amounts with decimal commas (5 semicolons,
\* 6 commas), a comma, a semicolon, pipes and a tab, no delimiter.
DELIMITED_LINES == {"1,5;2,5;3,5;4,5;5,5;6,5", "a,b", "a;b", "a|b\tc|d", "x"}

DelimitedTexts ==
  { TextOf(lines) : lines \in UNION { [1..k -> DELIMITED_LINES] : k \in 1..MaxLines } }

\* dialect = sniffer.sniff(sample, delimiters=",;|\t") (lines 339-343)
Sniff ==
  /\ pc = "sniff"
  /\ dialect_delimiter' \in SniffAnswers(csv_text)
  /\ pc' = "sniffed"
  /\ UNCHANGED << mapVars, csvVars, batchVars, outVars, rowVars, pipeVars, textVars, readVars,
                  moreVars, chosen_delimiter >>

\* The choice and the return (lines 344-354)
ReturnDelimiter ==
  /\ pc = "sniffed"
  /\ chosen_delimiter' = _detect_csv_delimiter(csv_text, dialect_delimiter)
  /\ pc' = "detected"
  /\ UNCHANGED << mapVars, csvVars, batchVars, outVars, rowVars, pipeVars, textVars, readVars,
                  moreVars, dialect_delimiter >>

InitDelimiter ==
  /\ pc = "sniff"
  /\ csv_text \in DelimitedTexts
  /\ container = "file" /\ csv_read = << >>
  /\ MapIdle /\ BatchIdle /\ OutIdle /\ AuxIdle

NextDelimiter == Sniff \/ ReturnDelimiter

SpecDelimiter == InitDelimiter /\ [][NextDelimiter]_vars

\* sample.count(d) for the sample of the text
Occurrences(d) == CountChar(Join(SampleLines(csv_text), "\n"), d)

\* The delimiters that occur most often in the sample.
MostFrequent ==
  { d \in Range(DELIMITERS) : \A e \in Range(DELIMITERS) : Occurrences(e) <= Occurrences(d) }

\* No candidate: the most frequent delimiter, the comma when none occurs,
\* and a candidate other than the comma is kept.
OtherCandidatesKept ==
  /\ dialect_delimiter = NoDelimiter =>
       /\ chosen_delimiter \in MostFrequent
       /\ Occurrences(chosen_delimiter) = 0 => chosen_delimiter = ","
  /\ dialect_delimiter \notin {NoDelimiter, ","} => chosen_delimiter = dialect_delimiter
  /\ dialect_delimiter = "," => chosen_delimiter \in {",", ";"}

\* C23 as stated: with the comma as candidate the semicolon is selected
\* only when the semicolons of the sample are at least as many as the
\* commas and at least as many as the sampled lines; otherwise the
\* candidate is kept; without candidate the most frequent delimiter is
\* chosen, the comma when none occurs.
C23_SemicolonOnlyWhenAsFrequent ==
  pc = "detected" =>
    /\ OtherCandidatesKept
    /\ (dialect_delimiter = "," /\ chosen_delimiter = ";") =>
         /\ Occurrences(";") >= Occurrences(",")
         /\ Occurrences(";") >= Len(SampleLines(csv_text))

\* C23 amended: with the comma as candidate the semicolon is selected
\* exactly when the semicolons are at least as many as the sampled lines
\* (and at least one) and 1.2 times their number is at least the number of
\* commas; the rest as stated.
C23_SemicolonWithinTolerance ==
  pc = "detected" =>
    /\ OtherCandidatesKept
    /\ dialect_delimiter = "," =>
         (chosen_delimiter = ";" <=>
            /\ Occurrences(";") >= Max(1, Len(SampleLines(csv_text)))
            /\ 12 * Occurrences(";") >= 10 * Occurrences(","))

\* The semicolon was selected over a sniffed comma with fewer semicolons
\* than commas.
C23_Witness ==
  /\ pc = "detected"
  /\ dialect_delimiter = ","
  /\ chosen_delimiter = ";"
  /\ Occurrences(";") < Occurrences(",")

----------------------------------------------------------------------------
(* The numeric totals and ranges of finalize (lines 926-933).              *)

\* The running total of a field is zero (or the field was never observed).
ZeroTotal(field) ==
  field \notin DOMAIN analyzer.numeric_totals \/ analyzer.numeric_totals[field] = FZero

\* C24 as stated: a numeric field whose running total is zero is dropped
\* from numeric_totals and from numeric_ranges, and a field is in
\* numeric_ranges only if it is in numeric_totals.
C24_ZeroTotalsDroppedFromRanges ==
  pc = "finalized" =>
    /\ \A field \in Range(NUMERIC_FIELDS) :
         ZeroTotal(field) =>
           /\ field \notin DOMAIN meta.semantic_summary.numeric_totals
           /\ field \notin DOMAIN meta.semantic_summary.numeric_ranges
    /\ DOMAIN meta.semantic_summary.numeric_ranges
         \subseteq DOMAIN meta.semantic_summary.numeric_totals

\* One record with a line total and no quantity: produto_qtd has the
\* range 0.0 to 0.0 and no total.
C24_Witness ==
  /\ pc = "finalized"
  /\ analyzer.row_count = 1
  /\ "produto_qtd" \notin DOMAIN meta.semantic_summary.numeric_totals
  /\ meta.semantic_summary.numeric_ranges["produto_qtd"] = [min |-> FZero, max |-> FZero]
  /\ "produto_valor_total" \in DOMAIN meta.semantic_summary.numeric_totals

\* What holds of C24: numeric_totals holds exactly the observed fields
\* whose total is not zero, and numeric_ranges every observed field.
ZeroTotalsDroppedFromTotals ==
  pc = "finalized" =>
    /\ DOMAIN meta.semantic_summary.numeric_totals
         = { field \in Range(NUMERIC_FIELDS) : ~ZeroTotal(field) }
    /\ DOMAIN meta.semantic_summary.numeric_ranges = DOMAIN analyzer.numeric_min
    /\ DOMAIN meta.semantic_summary.numeric_totals
         \subseteq DOMAIN meta.semantic_summary.numeric_ranges

----------------------------------------------------------------------------
(* The insights of finalize (lines 988-1019): an analyzer fed one record   *)
(* per issuer, each with its own product, a line total and an issue date,  *)
(* and finalized at any point.                                             *)

\* issuers observed by one analyzer
MaxIssuers == 7

ISSUERS ==
  << "Emitente A", "Emitente B", "Emitente C", "Emitente D", "Emitente E", "Emitente F",
     "Emitente G", "Emitente H" >>

\* The line total of the first record; the other records carry 1.0.
LEADER_WEIGHTS == {FZero, F(One), F(Rat(35, 10)), F(Rat(5, 1))}

\* The cells of data_emissao: none, a later day in ISO form, an earlier day
\* in day/month/year form.
DATE_CELLS == {None, "2024-02-01", "05/01/2024"}

\* The record of the k-th issuer.
IssuerEntry(k, weight, date_cell) ==
  [field \in Fields |->
     IF field = "emitente_nome" THEN ISSUERS[k]
     ELSE IF field = "produto_nome" THEN PRODUCTS[k]
     ELSE IF field = "produto_valor_total" THEN weight
     ELSE IF field = "data_emissao" THEN date_cell
     ELSE IF field \in CSV_NUMERIC_FIELDS THEN FZero
     ELSE None]

ObserveIssuer ==
  /\ pc = "observe"
  /\ analyzer.row_count < MaxIssuers
  /\ analyzer.row_count < Len(ISSUERS)
  /\ \E weight \in (IF analyzer.row_count = 0 THEN LEADER_WEIGHTS ELSE {F(One)}),
        date_cell \in DATE_CELLS :
       analyzer' = observe(analyzer, IssuerEntry(analyzer.row_count + 1, weight, date_cell))
  /\ UNCHANGED << pc, totals_by_nfe, result, meta, mapVars, csvVars, batchVars, outVars, restVars >>

InitInsights == InitAnalyzer

NextInsights == ObserveIssuer \/ Finalize

SpecInsights == InitInsights /\ [][NextInsights]_vars

\* finalize emitted the insight of a kind.
Emitted(kind) == \E i \in 1..Len(meta.insights) : meta.insights[i].kind = kind

\* The greatest of the weighted totals of a field is at least n/d of the
\* sum of the weighted totals of all its observed labels (a sum of zero
\* has no share).
LeadsAllObserved(field, n, d) ==
  With(analyzer.category_weighted_totals[field], LAMBDA items :
  With(FSum([i \in 1..Len(items) |-> items[i].value]), LAMBDA total :
    /\ items # << >>
    /\ total # FZero
    /\ \E i \in 1..Len(items) :
         /\ \A j \in 1..Len(items) : ~FLess(items[i].value, items[j].value)
         /\ ShareAtLeast(items[i].value, total, n, d)))

\* The weighted totals of the earliest and of the latest day differ by at
\* least 15% of that of the earliest, which is not zero.
BucketsDiffer ==
  With(analyzer.timeline_totals, LAMBDA items :
    /\ Len(items) >= 2
    /\ \E a, b \in 1..Len(items) :
         /\ \A j \in 1..Len(items) : ~DateBefore(items[j].date, items[a].date)
         /\ \A j \in 1..Len(items) : ~DateBefore(items[b].date, items[j].date)
         /\ items[a].value # FZero
         /\ With(RSub(items[b].value.lo, items[a].value.lo), LAMBDA change :
              RLeq(RMul(Rat(15, 100), Rat(Abs(items[a].value.lo.n), items[a].value.lo.d)),
                   Rat(Abs(change.n), change.d))))

\* C25 as stated: the issuer insight is emitted exactly when the leading
\* issuer's weighted value is at least 50% of the weighted total over all
\* observed issuers, the product insight exactly when the leading product's
\* is at least 40% of the total over all observed products, and a rise or
\* fall insight exactly when the totals of the earliest and the latest date
\* bucket differ by at least 15% of the earliest.
C25_InsightsAtSharesOfAllObserved ==
  pc = "finalized" =>
    /\ Emitted("emitente") <=> LeadsAllObserved("emitente_nome", 1, 2)
    /\ Emitted("produto") <=> LeadsAllObserved("produto_nome", 2, 5)
    /\ (Emitted("alta") \/ Emitted("queda")) <=> BucketsDiffer

\* Seven issuers, the first with 5.0 and six with 1.0: the issuer insight
\* is emitted for 5.0 of the 10.0 listed, which is 5.0 of 11.0 observed.
C25_Witness ==
  /\ pc = "finalized"
  /\ analyzer.row_count = 7
  /\ analyzer.category_weighted_totals["emitente_nome"][1].value = F(Rat(5, 1))
  /\ Emitted("emitente")
  /\ ~LeadsAllObserved("emitente_nome", 1, 2)

\* What holds of C25: with at most MAX_CHART_ITEMS issuers and products
\* the insights are emitted as stated.
InsightsWithinTheTopList ==
  (pc = "finalized" /\ analyzer.row_count <= MAX_CHART_ITEMS) =>
    /\ Emitted("emitente") <=> LeadsAllObserved("emitente_nome", 1, 2)
    /\ Emitted("produto") <=> LeadsAllObserved("produto_nome", 2, 5)
    /\ (Emitted("alta") \/ Emitted("queda")) <=> BucketsDiffer

\* The trend part of C25 holds for any number of issuers.
TrendInsightAsStated ==
  pc = "finalized" => ((Emitted("alta") \/ Emitted("queda")) <=> BucketsDiffer)

----------------------------------------------------------------------------
(* Progress calls of a batch (extract_documents, lines 1747-1776, and      *)
(* _handle_zip, lines 1644-1651).                                          *)

\* The calls made by the loop over the submitted paths.
FileCalls == SelectSeq(progress_calls, LAMBDA call : call.level = "file")

\* The runs that have started.
Started == { i \in 1..Len(tasks) : tasks[i].state # "queued" }

\* C26: with a progress callback no two runs are under way at once and a
\* run starts only when every path submitted before it has returned; the
\* calls for the submitted paths are (1, total), (2, total), ... in this
\* order, the call for path i is made exactly when every path before it
\* has returned and before path i is handled, and every call, also those
\* for the members of an archive, has 1 <= index <= total.
C26_ProgressCallsInSubmissionOrder ==
  progress_callback =>
    /\ Cardinality(Running) <= 1
    /\ \A i \in Started : \A j \in 1..(i - 1) : tasks[j].state = "done"
    /\ FileCalls = [i \in 1..Len(FileCalls) |-> ProgressCall("file", i, i, Len(file_list))]
    /\ Started = 1..Len(FileCalls)
    /\ completion_order = [k \in 1..Len(completion_order) |-> k]
    /\ \A k \in 1..Len(progress_calls) :
         progress_calls[k].index \in 1..progress_calls[k].total

\* A batch of two paths with a callback has returned; one of the paths
\* is an archive whose members were reported as well.
C26_Witness ==
  /\ BatchFinished
  /\ progress_callback
  /\ outcome = "returned"
  /\ Len(FileCalls) = Len(file_list)
  /\ Len(file_list) >= 2
  /\ Len(progress_calls) > Len(file_list) + 1

----------------------------------------------------------------------------
(* The percentage of a task (SQLAlchemyStatusRepository.update_agent_status, *)
(* repositories.py, lines 28-55) over a run of the pipeline.               *)

\* task.progress
TaskProgress == IF task_row = << >> THEN 0 ELSE task_row[1].progress

\* Every phase of the pipeline is stored as 'completed'.
AllCompleted ==
  /\ task_row # << >>
  /\ \A k \in 1..Len(PHASES) :
       PHASES[k] \in DOMAIN task_row[1].agent_status
         /\ task_row[1].agent_status[PHASES[k]] = "completed"

\* The percentage of the task is within 0..100 and is 100 only with the
\* six phases completed.
ProgressWithinRange ==
  /\ TaskProgress \in 0..100
  /\ TaskProgress = 100 => AllCompleted

\* The percentage after a step is at least the percentage before it.
ProgressGrows == TaskProgress' >= TaskProgress

ThirdPhaseRunning ==
  /\ task_row # << >>
  /\ Len(agent_updates) = 5
  /\ TaskProgress = 33

----------------------------------------------------------------------------
(* The document reported for one file or one member of an archive          *)
(* (_handle_single_file, lines 1607-1642; _handle_zip, lines 1659-1737).   *)

\* The extensions of the documents: the five parsed ones and another.
EXTENSIONS == {"xml", "pdf", "ocr", "csv", "json", "txt"}

\* The records a parser may return: one or more of two records.
RECORDS == {[produto_nome |-> "Produto A"], [produto_nome |-> "Produto B"]}

RecordLists == UNION { [1..k -> RECORDS] : k \in 1..MaxRecords }

\* What a parser returns: data, text and error (None is "").
Returned(data, document, error) ==
  [raises |-> "", data |-> data, text |-> document, error |-> error]

\* An exception leaves the parser.
Raises(exception) == [raises |-> exception, data |-> << >>, text |-> None, error |-> None]

\* The outcomes of _parse_nfe_xml (lines 1240-1320): no records with an
\* error, or the records of the items and no error.
XmlResults ==
  { Returned(<< >>, None, error) :
      error \in {"XML malformado", "Bloco <infNFe> nao encontrado no XML.",
                 "Nenhum item <det> encontrado no XML."} }
    \cup { Returned(data, None, None) : data \in RecordLists }

\* The outcomes of _parse_pdf and _parse_ocr (lines 1584-1604): no text
\* and the error of _extract_pdf_text, or the text with the records of
\* its table or the one record of its summary; reading the file raises.
TextResults(ext) ==
  (IF ext = "pdf" THEN {Returned(<< >>, None, PdfError)} ELSE {Raises("FileNotFoundError")})
    \cup { Returned(data, "texto", None) : data \in RecordLists }

\* The outcomes of _parse_csv (lines 1323-1351) and of the csv branch of
\* _handle_zip (lines 1683-1709): an unreadable file, no row, the records
\* of the rows, or the ValueError of the unpacking of _read_csv_rows.
CsvResults(where) ==
  (IF where = "file" THEN {Returned(<< >>, None, "Erro ao ler CSV")} ELSE {})
    \cup {Returned(<< >>, None, NoRowsError), Raises("ValueError")}
    \cup { Returned(data, None, None) : data \in RecordLists }

\* The outcomes of _parse_json (lines 1354-1358): the items of the list,
\* which may be empty, or an exception.
JsonResults ==
  {Returned(<< >>, None, None), Raises("ValueError")}
    \cup { Returned(data, None, None) : data \in RecordLists }

ParserResults(ext, where) ==
  CASE ext = "xml" -> XmlResults
    [] ext \in {"pdf", "ocr"} -> TextResults(ext)
    [] ext = "csv" -> CsvResults(where)
    [] ext = "json" -> JsonResults
    [] OTHER -> {}

\* The extensions _handle_zip parses (lines 1659-1709).
ZIP_EXTENSIONS == {"xml", "pdf", "ocr", "csv"}

\* ImportedDoc.data when None
NoData == << >>

\* Mutation of DataOrNone: the list is kept when it is empty.
DataOrNone_Kept(data) == << data >>

\* `data=data or None`: << >> for None, << data >> for a list.
DataOrNone(data) == IF data # << >> THEN << data >> ELSE NoData

\* ImportedDoc(kind=..., name=..., status=..., data=..., text=..., error=...)
ReportedDoc(kind, name, status, data, document, error) ==
  [kind |-> kind, name |-> name, status |-> status, data |-> data, text |-> document,
   error |-> error]

\* ImportedDoc(kind="UNSUPPORTED", ..., status="unsupported", error=...)
UnsupportedDoc(name, error) == ReportedDoc("UNSUPPORTED", name, "unsupported", NoData, None, error)

\* The parser of the document is called and returns or raises.
ParseDocument ==
  /\ pc = "parse"
  /\ doc' \in ParserResults(extension, container)
  /\ pc' = "handle"
  /\ UNCHANGED << mapVars, csvVars, batchVars, outVars, rowVars, pipeVars, extraVars,
                  extension, doc_text, text_lines, idx, candidate_tables, table_meta >>

\* _handle_single_file returns the document: of an unsupported extension,
\* of what the parser returned, or of the exception it raised.
HandleFile ==
  /\ container = "file"
  /\ IF SUPPORTED_KINDS(extension) = "UNSUPPORTED"
       THEN pc = "parse" /\ docs' = << UnsupportedDoc(SourceName, "Formato nao suportado.") >>
     ELSE /\ pc = "handle"
          /\ docs' = << IF doc.raises # ""
                          THEN ReportedDoc(SUPPORTED_KINDS(extension), SourceName, "error",
                                           NoData, None, doc.raises)
                        ELSE ReportedDoc(SUPPORTED_KINDS(extension), SourceName,
                                         StatusOf(doc.data), DataOrNone(doc.data),
                                         doc.text, doc.error) >>
  /\ outcome' = "returned"
  /\ pc' = "done"
  /\ UNCHANGED << mapVars, csvVars, batchVars, rowVars, restVars >>

\* _handle_zip on the one member of an archive: the document appended,
\* or the exception of the parser, which nothing catches.
HandleMember ==
  /\ container = "zip"
  /\ IF extension \notin ZIP_EXTENSIONS
       THEN /\ pc = "parse"
            /\ docs' = << UnsupportedDoc(SourceName, "Formato nao suportado dentro do ZIP.") >>
            /\ outcome' = "returned"
     ELSE /\ pc = "handle"
          /\ docs' = IF doc.raises # "" THEN << >>
                     ELSE << ReportedDoc(SUPPORTED_KINDS(extension), SourceName,
                                         StatusOf(doc.data), DataOrNone(doc.data),
                                         doc.text, doc.error) >>
          /\ outcome' = IF doc.raises # "" THEN "raised" ELSE "returned"
  /\ pc' = "done"
  /\ UNCHANGED << mapVars, csvVars, batchVars, rowVars, restVars >>

InitDocument ==
  /\ pc = "parse"
  /\ extension \in EXTENSIONS
  /\ container \in {"file", "zip"}
  /\ csv_text = "" /\ csv_read = << >>
  /\ doc_text = "" /\ text_lines = << >> /\ idx = 0 /\ candidate_tables = << >>
  /\ table_meta = << >> /\ doc = << >>
  /\ MapIdle /\ BatchIdle /\ OutIdle /\ RowIdle /\ PipeIdle /\ ExtraIdle

NextDocument == ParseDocument \/ HandleFile \/ HandleMember

SpecDocument == InitDocument /\ [][NextDocument]_vars

\* C27: every document returned is 'parsed' exactly when its data is a
\* list with at least one record; a 'parsed' document has no error; an
\* 'error' or 'unsupported' document has no data.
C27_StatusAgreesWithData ==
  \A i \in 1..Len(docs) :
    /\ docs[i].status \in {"parsed", "error", "unsupported"}
    /\ docs[i].status = "parsed" <=> (docs[i].data # NoData /\ docs[i].data[1] # << >>)
    /\ docs[i].status = "parsed" => docs[i].error = None
    /\ docs[i].status \in {"error", "unsupported"} => docs[i].data = NoData

\* A .csv member without rows is reported as an error, without data.
C27_Witness ==
  /\ pc = "done"
  /\ container = "zip"
  /\ extension = "csv"
  /\ docs # << >>
  /\ docs[1].status = "error"
  /\ docs[1].error = NoRowsError
  /\ docs[1].data = NoData

\* A .pdf file is reported as parsed with its two records and its text.
ParsedPdf ==
  /\ pc = "done"
  /\ extension = "pdf"
  /\ docs # << >>
  /\ docs[1].status = "parsed"
  /\ Len(docs[1].data[1]) = 2

----------------------------------------------------------------------------
(* The parallel path of extract_documents against the sequential path      *)
(* (lines 1741-1776).                                                      *)

\* The document of a member of an archive handled with no other run under
\* way: a .pdf or .ocr member is parsed from the temporary file that
\* holds its own bytes.
MemberAlone(path, name) ==
  With(MemberExtension(_sanitize_filename(name)), LAMBDA ext :
    IF ext \in TMP_EXTENSIONS
      THEN FileDoc(SUPPORTED_KINDS(ext), _sanitize_filename(name), "parsed",
                   MemberContent(path, name), PathName(path))
    ELSE FileDoc(IF ext \in {"xml", "csv"} THEN SUPPORTED_KINDS(ext) ELSE "UNSUPPORTED",
                 _sanitize_filename(name),
                 IF ext \in {"xml", "csv"} THEN "parsed" ELSE "unsupported",
                 "", PathName(path)))

\* _process_path(path) with no other run under way: its documents, or
\* the exception that leaves it.
ProcessAlone(path) ==
  IF ~OnDisk(path) THEN Raised("FileNotFoundError")
  ELSE IF _get_extension(path) = "zip"
    THEN IF ~DISK[path].readable THEN Raised("BadZipFile")
         ELSE Done([k \in 1..Len(Members(path)) |-> MemberAlone(path, Members(path)[k])])
  ELSE With(SUPPORTED_KINDS(_get_extension(path)), LAMBDA kind :
         Done(<< FileDoc(kind, PathName(path),
                         IF kind = "UNSUPPORTED" THEN "unsupported"
                         ELSE IF DISK[path].readable THEN "parsed" ELSE "error",
                         "", "") >>))

\* What the loop of the sequential path gives for the paths: the runs one
\* after another, up to the first that raises.
SequentialRuns(paths) == [i \in 1..Len(paths) |-> ProcessAlone(paths[i])]

SequentialRaises(paths) == \E i \in 1..Len(paths) : SequentialRuns(paths)[i].state = "raised"

SequentialDocs(paths) == Extend(SequentialRuns(paths))

\* The sequential path of the model returns what SequentialDocs computes
\* and raises when SequentialRaises tells.
SequentialPathAsComputed ==
  (BatchFinished /\ ~Parallel) =>
    /\ outcome = "raised" <=> SequentialRaises(file_list)
    /\ outcome = "returned" => docs = SequentialDocs(file_list)

\* C29 as stated: a batch of two or more paths without a callback ends as
\* the sequential path ends for the same paths, and returns the same
\* documents in the same order, with parallelized true where the
\* sequential path has false.
C29_ParallelAsSequential ==
  (BatchFinished /\ Parallel) =>
    /\ outcome = "raised" <=> SequentialRaises(file_list)
    /\ outcome = "returned" => docs = MarkParallelized(SequentialDocs(file_list))

\* Two archives of one directory hold a member of the same name: the
\* parallel batch returned, for the member of one archive, a document
\* the sequential path does not return.
C29_Witness ==
  /\ BatchFinished
  /\ Parallel
  /\ outcome = "returned"
  /\ ~SequentialRaises(file_list)
  /\ docs # MarkParallelized(SequentialDocs(file_list))
  /\ Len(docs) = Len(SequentialDocs(file_list))

\* The temporary paths the run of a path writes.
TmpPathsOf(path) ==
  IF OnDisk(path) /\ _get_extension(path) = "zip"
    THEN { TmpPath(path, Members(path)[k]) :
             k \in { m \in 1..Len(Members(path)) :
                       MemberExtension(_sanitize_filename(Members(path)[m])) \in TMP_EXTENSIONS } }
  ELSE {}

\* No two submitted paths write the same temporary path.
DisjointTmpPaths ==
  \A i, j \in 1..Len(file_list) :
    i # j => TmpPathsOf(file_list[i]) \cap TmpPathsOf(file_list[j]) = {}

\* What holds: when no two submitted paths write the same temporary path,
\* the parallel path ends and returns as the sequential path, with
\* parallelized true.
ParallelAsSequentialWithoutSharedTmp ==
  (BatchFinished /\ Parallel /\ DisjointTmpPaths) =>
    /\ outcome = "raised" <=> SequentialRaises(file_list)
    /\ outcome = "returned" => docs = MarkParallelized(SequentialDocs(file_list))

\* A parallel batch of a .csv file and an archive returned the documents
\* of the sequential path, the parsed ones marked as parallelized.
ParallelBatchMarked ==
  /\ BatchFinished
  /\ Parallel
  /\ outcome = "returned"
  /\ DisjointTmpPaths
  /\ docs = MarkParallelized(SequentialDocs(file_list))
  /\ \E k \in 1..Len(docs) : docs[k].parallelized = << TRUE >>
  /\ \E k \in 1..Len(docs) : docs[k].source_zip # ""
====
